---- MODULE Spec2Model ----
(***************************************************************************)
(* Model of the platform-service-gateway cluster reconciler and of the     *)
(* Envoy gateway lifecycle manager it drives.                              *)
(*                                                                         *)
(* One Target Cluster object lives on the platform store.  A Reconcile run *)
(* is a sequence of steps (one per call of the reconciler into the stores, *)
(* the access broker or the gateway manager); the environment (users, the  *)
(* stores' garbage collection, the chart delivery controller) interleaves  *)
(* with the steps of a run.                                                *)
(***************************************************************************)
EXTENDS Integers, Sequences, FiniteSets, TLC

VARIABLES
    config,     \* r.Config.Spec of the reconciler (fixed at construction)
    cluster,    \* the Cluster object on the platform store
    stores,     \* [platform |-> objects of the platform store (source pull-secret,
                \*  OCIRepository, HelmRelease), target |-> objects of the target
                \*  cluster's store (namespaces, pull-secret copy, gateway objects)]
    kinds,      \* kind groups served through CRDs that the stores have registered
    run,        \* the Reconcile invocation in progress (or the last one ended)
    queued,     \* a reconcile request for the cluster is pending in the work queue
    budget      \* environment events and store faults still allowed

vars == <<config, cluster, stores, kinds, run, queued, budget>>

-----------------------------------------------------------------------------
(* Bounds of the exploration *)

MaxExternal == 2
MaxFaults == 1
MaxWaitHint == 2
MaxTerms == 2

-----------------------------------------------------------------------------
(* Program constants *)

RequeueRemainingResources == 10
RequeueCRDNotFound == 10
RequeueConverged == 3600
TLSPort == 9443

GatewayFinalizerOnCluster == "platformservice.openmcp.cloud/gateway"
OtherFinalizer == "other.openmcp.cloud/finalizer"
GatewayOperationAnnotation == "gateway.openmcp.cloud/operation"
GenericOperationAnnotation == "openmcp.cloud/operation"
OperationIgnore == "ignore"
OperationReconcile == "reconcile"
NamespaceDefault == "default"

deploymentNamespace == "envoy-gateway-system"
gatewayNamespace == "openmcp-system"
gatewayClassName == "envoy-gateway"
gatewayName == "default"
gatewayClassControllerName == "gateway.envoyproxy.io/gatewayclass-controller"

ClusterName == "foo"
ClusterNamespace == "bar"
KubeconfigSecret == "access-secret"
PullSecretName == "my-secret"

-----------------------------------------------------------------------------
(* Maps (labels, annotations) are sets of <<key, value>> pairs with at most *)
(* one pair per key.                                                        *)

HasKey(m, k) == \E p \in m : p[1] = k

\* a Go map read: the zero value "" when the key is missing
Lookup(m, k) == IF HasKey(m, k) THEN (CHOOSE p \in m : p[1] = k)[2] ELSE ""

DeleteKey(m, k) == {p \in m : p[1] # k}

SeqToSet(s) == {s[i] : i \in 1..Len(s)}

-----------------------------------------------------------------------------
(* Selector engine *)

\* variant of normalizedName: the namespace is taken as written
normalizedName_Raw(name, namespace) == [name |-> name, namespace |-> namespace]

normalizedName(name, namespace) ==
    [name |-> name,
     namespace |-> IF namespace = "" THEN NamespaceDefault ELSE namespace]

refMatches(ref, c) ==
    normalizedName(ref.name, ref.namespace) = normalizedName(c.name, c.namespace)

purposeMatches(purpose, c) ==
    IF purpose = "" THEN TRUE ELSE purpose \in c.purposes

labelsMatch(labels, c) ==
    \A p \in labels : Lookup(c.labels, p[1]) = p[2]

selectorMatches(sel, c) ==
    purposeMatches(sel.matchPurpose, c) /\ labelsMatch(sel.matchLabels, c)

\* a term is [ref |-> <<>> or <<ClusterRef>>, selector |-> <<>> or <<ClusterSelector>>]
\* (a one-element sequence stands for a non-nil pointer)
termMatches(ct, c) ==
    \/ (ct.ref # <<>> /\ refMatches(ct.ref[1], c))
    \/ (ct.selector # <<>> /\ selectorMatches(ct.selector[1], c))

enabledForCluster(terms, c) ==
    \E i \in 1..Len(terms) : termMatches(terms[i], c)

ContainsFinalizer(c, f) == f \in c.finalizers

\* variant of shouldReconcile: the terms alone decide
shouldReconcile_ScopeOnly(terms, c) == enabledForCluster(terms, c)

\* variant of shouldReconcile: every cluster is taken up
shouldReconcile_Always(terms, c) == TRUE

shouldReconcile(terms, c) ==
    ContainsFinalizer(c, GatewayFinalizerOnCluster) \/ enabledForCluster(terms, c)

-----------------------------------------------------------------------------
(* Errors.  An error value is the chain of the error types it wraps,        *)
(* outermost first (errors.Is / errors.As search the chain), the requeue    *)
(* delay of its RetryableError and the objects of its                       *)
(* RemainingResourcesError.                                                  *)

NoError == [chain |-> <<>>, after |-> 0, objs |-> <<>>]

IsError(err) == err.chain # <<>>

StoreError(type) == [chain |-> <<type>>, after |-> 0, objs |-> <<>>]

\* errors.Join(sentinel, err) and fmt.Errorf("...: %w", err)
Wrap(sentinel, err) == [err EXCEPT !.chain = <<sentinel>> \o @]

ErrorsIs(err, type) == type \in SeqToSet(err.chain)

NewRetryableError(err, requeueAfter) ==
    [chain |-> <<"RetryableError">> \o err.chain, after |-> requeueAfter, objs |-> err.objs]

\* variant of NewRemainingResourcesError: not wrapped in a RetryableError
NewRemainingResourcesError_Plain(requeueAfter, objs) ==
    [chain |-> <<"RemainingResourcesError">>, after |-> 0, objs |-> objs]

NewRemainingResourcesError(requeueAfter, objs) ==
    [chain |-> <<"RetryableError", "RemainingResourcesError">>,
     after |-> requeueAfter, objs |-> objs]

IsRetryableError(err) == ErrorsIs(err, "RetryableError")

IsRemainingResourcesError(err) == ErrorsIs(err, "RemainingResourcesError")

IsNotFound(err) == ErrorsIs(err, "NotFound")

\* meta.IsNoMatchError: a no-kind-match or a no-resource-match error
IsNoMatchError(err) ==
    ErrorsIs(err, "NoKindMatchError") \/ ErrorsIs(err, "NoResourceMatchError")

\* variant of IsCRDNotFoundError: one not-found error among the wrapped
\* errors is enough
IsCRDNotFoundError_SomeNotFound(err) ==
    \/ IsNoMatchError(err)
    \/ /\ ErrorsIs(err, "ErrResourceDiscoveryFailed")
       /\ "failed" \in DOMAIN err
       /\ \E i \in 1..Len(err.failed) : IsNotFound(err.failed[i])

\* An ErrResourceDiscoveryFailed error carries the errors of the groups whose
\* discovery failed in a field of its own, failed; the errors the stores of
\* the reconciler give do not have it.
IsCRDNotFoundError(err) ==
    IF IsNoMatchError(err) THEN TRUE
    ELSE IF ~ErrorsIs(err, "ErrResourceDiscoveryFailed") THEN FALSE
    ELSE IF "failed" \notin DOMAIN err THEN TRUE
    ELSE \A i \in 1..Len(err.failed) : IsNotFound(err.failed[i])

-----------------------------------------------------------------------------
(* Stores.  An object is absent, live, or terminating (its deletion was     *)
(* accepted and a finalizer of its own still holds it in the store).        *)

PlatformIds == {"sourceSecret", "repo", "helmRelease"}
TargetIds == {"nsDeployment", "secret", "nsGateway", "gatewayclass", "envoyProxy", "gateway"}

NoSpec == [none |-> TRUE]
Absent == [ph |-> "absent", spec |-> NoSpec]
Live(spec) == [ph |-> "live", spec |-> spec]

Exists(o) == o.ph # "absent"

\* the kind group an object's kind belongs to: "flux" and "gateway" kinds are
\* served through CRDs, "core" kinds are always registered
KindGroup(id) ==
    CASE id \in {"repo", "helmRelease"} -> "flux"
      [] id \in {"gatewayclass", "envoyProxy", "gateway"} -> "gateway"
      [] OTHER -> "core"

KindRegistered(k, id) == KindGroup(id) = "core" \/ KindGroup(id) \in k

\* st is [platform |-> store, target |-> store]; client is "platform" or "target"
ObjectIn(st, client, id) == st[client][id]

PutObject(st, client, id, o) == [st EXCEPT ![client][id] = o]

-----------------------------------------------------------------------------
(* Delete-with-retry primitive *)

\* client.Delete of one object.  choice is the environment's part of the
\* answer: "fault" (the store refuses the call), "lingers" (a live object has
\* a finalizer of its own and stays, terminating) or "removed".
DeleteCall(st, k, client, id, choice) ==
    LET o == ObjectIn(st, client, id) IN
    IF choice = "fault" THEN [st |-> st, err |-> StoreError("Forbidden")]
    ELSE IF ~KindRegistered(k, id) THEN [st |-> st, err |-> StoreError("NoKindMatchError")]
    ELSE IF ~Exists(o) THEN [st |-> st, err |-> StoreError("NotFound")]
    ELSE IF o.ph = "terminating" \/ choice = "lingers"
         THEN [st |-> PutObject(st, client, id, [o EXCEPT !.ph = "terminating"]),
               err |-> NoError]
    ELSE [st |-> PutObject(st, client, id, Absent), err |-> NoError]

\* variants of DeleteMeansGone the properties must tell apart from it: every
\* answer, the not-found answer only, the kind-not-registered answer only
DeleteMeansGone_AnyAnswer(err) == TRUE

DeleteMeansGone_NotFoundOnly(err) == IsNotFound(err)

DeleteMeansGone_NoKindOnly(err) == IsCRDNotFoundError(err)

\* deployment_test.go:451: the answers that mean the object is gone
DeleteMeansGone(err) == IsNotFound(err) \/ IsCRDNotFoundError(err)

\* variant of EnsureDeletionReturn: the error only when every object of the
\* call is still pending
EnsureDeletionReturn_AllPending(objs, remaining) ==
    IF Len(remaining) = Len(objs)
    THEN NewRemainingResourcesError(RequeueRemainingResources, objs)
    ELSE NoError

\* variant of EnsureDeletionReturn: success with objects still pending
EnsureDeletionReturn_Success(objs, remaining) == NoError

\* deployment_test.go:462-467: the value ensureDeletionOfObjects returns after
\* the loop
EnsureDeletionReturn(objs, remaining) ==
    IF Len(remaining) > 0
    THEN NewRemainingResourcesError(RequeueRemainingResources, objs)
    ELSE NoError

RECURSIVE ensureDeletionLoop(_, _, _, _, _, _, _)
ensureDeletionLoop(st, k, client, objs, ch, i, remaining) ==
    IF i > Len(objs)
    THEN [st |-> st, err |-> EnsureDeletionReturn(objs, remaining),
          issued |-> objs, remaining |-> remaining]
    ELSE CHOOSE out \in
            {IF DeleteMeansGone(d.err)
             THEN ensureDeletionLoop(d.st, k, client, objs, ch, i + 1, remaining)
             ELSE IF IsError(d.err)
             THEN [st |-> d.st, err |-> Wrap("errFailedToDeleteObject", d.err),
                   issued |-> SubSeq(objs, 1, i), remaining |-> remaining]
             ELSE ensureDeletionLoop(d.st, k, client, objs, ch, i + 1,
                                     Append(remaining, objs[i]))
                : d \in {DeleteCall(st, k, client, objs[i], ch[i])}} : TRUE

ensureDeletionOfObjects(st, k, client, objs, ch) ==
    ensureDeletionLoop(st, k, client, objs, ch, 1, <<>>)

\* variant of CleanupObjects: the data-plane namespace is deleted as well
CleanupObjects_WithNamespace == <<"gateway", "envoyProxy", "gatewayclass", "nsGateway">>

CleanupObjects == <<"gateway", "envoyProxy", "gatewayclass">>
UninstallObjects == <<"helmRelease", "repo">>

Cleanup(st, k, ch) == ensureDeletionOfObjects(st, k, "target", CleanupObjects, ch)

Uninstall(st, k, ch) == ensureDeletionOfObjects(st, k, "platform", UninstallObjects, ch)

-----------------------------------------------------------------------------
(* Resource recipes.  g is the gateway manager:                             *)
(* [cluster, envoyConfig, dnsConfig, fluxKubeconfig].                       *)
(* envoyConfig.images is <<>> (nil) or <<ImagesConfig>>.                    *)

EmptySpec == [fields |-> "none"]

\* the object as the get* function builds it, before the first Get
FreshSpec(id) ==
    CASE id = "repo" -> [url |-> "", tag |-> "", secretRef |-> ""]
      [] id = "helmRelease" ->
            [chartRef |-> "", targetNamespace |-> "", kubeConfig |-> "",
             values |-> [images |-> {}, imagePullSecrets |-> <<>>]]
      [] id \in {"secret", "sourceSecret"} -> [data |-> "", type |-> ""]
      \* reconcileGatewayClassFunc sets the field when the operation is built
      [] id = "gatewayclass" -> [controllerName |-> gatewayClassControllerName]
      [] id = "envoyProxy" ->
            [providerType |-> "", image |-> "", imagePullSecrets |-> <<>>, held |-> "json"]
      [] id = "gateway" ->
            [gatewayClassName |-> "", port |-> 0, tlsMode |-> "", parametersRef |-> "",
             baseDomain |-> <<>>, infrastructureLabels |-> ""]
      [] OTHER -> EmptySpec

generateBaseDomain(g) == <<g.cluster.name, g.cluster.namespace, g.dnsConfig.baseDomain>>

generateHelmValues(g) ==
    LET img == g.envoyConfig.images IN
    [images |->
        IF img = <<>> THEN {}
        ELSE {p \in {<<"envoyGateway", img[1].envoyGateway>>,
                     <<"ratelimit", img[1].ratelimit>>} : p[2] # ""},
     imagePullSecrets |-> IF img = <<>> THEN <<>> ELSE img[1].imagePullSecrets]

\* variant of repoName: one name for every cluster
repoName_Fixed(g) == "gateway"

\* deployment.go:73 and 82: fmt.Sprintf("%s.gateway", g.Cluster.Name)
repoName(g) == g.cluster.name \o ".gateway"

\* deployment.go:70-86: the identities of the chart source and the chart
\* release of a cluster on the platform store
getRepo(g) ==
    [kind |-> "OCIRepository", namespace |-> g.cluster.namespace, name |-> repoName(g)]

getHelmRelease(g) ==
    [kind |-> "HelmRelease", namespace |-> g.cluster.namespace, name |-> repoName(g)]

reconcileOCIRepositoryFunc(g, spec) ==
    [spec |-> [spec EXCEPT !.url = g.envoyConfig.chart.url,
                           !.tag = g.envoyConfig.chart.tag,
                           !.secretRef = g.envoyConfig.chart.secretRef],
     err |-> NoError]

reconcileHelmReleaseFunc(g, spec) ==
    [spec |-> [spec EXCEPT !.chartRef = "OCIRepository",
                           !.targetNamespace = deploymentNamespace,
                           !.kubeConfig = g.fluxKubeconfig,
                           !.values = generateHelmValues(g)],
     err |-> NoError]

\* variant of reconcileSecretFunc: the copy is left as it was read
reconcileSecretFunc_NoCopy(g, st, spec) == [spec |-> spec, err |-> NoError]

\* reads the source secret of the same name from the cluster's namespace on
\* the platform store
reconcileSecretFunc(g, st, spec) ==
    LET src == ObjectIn(st, "platform", "sourceSecret") IN
    IF ~Exists(src)
    THEN [spec |-> spec, err |-> Wrap("failed to get secret", StoreError("NotFound"))]
    ELSE [spec |-> [spec EXCEPT !.data = src.spec.data, !.type = src.spec.type],
          err |-> NoError]

\* g.EnvoyConfig.Images is dereferenced without a nil check.  The object is
\* schema-less content: the function replaces its spec by a map that holds
\* the pull-secret references as the configuration's Go slice
\* ([]LocalObjectReference, config_types.go:91) and the container as a
\* Go map, nil when no image is set (held = "go").
reconcileEnvoyProxyFunc(g, spec) ==
    LET img == g.envoyConfig.images IN
    IF img = <<>>
    THEN [spec |-> spec, err |-> StoreError("panic")]
    ELSE [spec |-> [spec EXCEPT !.providerType = "Kubernetes",
                                !.image = img[1].envoyProxy,
                                !.imagePullSecrets = img[1].imagePullSecrets,
                                !.held = "go"],
          err |-> NoError]

reconcileGatewayFunc(g, spec) ==
    [spec |-> [spec EXCEPT !.gatewayClassName = gatewayClassName,
                           !.port = TLSPort,
                           !.tlsMode = "Passthrough",
                           !.parametersRef = gatewayName,
                           !.baseDomain = generateBaseDomain(g)],
     err |-> NoError]

\* the MutateFn of an operation applied to the object read from the store
Mutate(g, st, id, spec) ==
    CASE id = "repo" -> reconcileOCIRepositoryFunc(g, spec)
      [] id = "helmRelease" -> reconcileHelmReleaseFunc(g, spec)
      [] id = "secret" -> reconcileSecretFunc(g, st, spec)
      [] id = "envoyProxy" -> reconcileEnvoyProxyFunc(g, spec)
      [] id = "gateway" -> reconcileGatewayFunc(g, spec)
      [] OTHER -> [spec |-> spec, err |-> NoError]

\* an applyOperation: obj, f (whether a MutateFn is set), c ("" for nil)
ApplyOperation(obj, f, c) == [obj |-> obj, f |-> f, c |-> c]

ensureNamespace(id, c) == ApplyOperation(id, FALSE, c)

ensureSecrets(g) ==
    LET img == g.envoyConfig.images IN
    IF img = <<>> \/ Len(img[1].imagePullSecrets) = 0 THEN <<>>
    ELSE [i \in 1..Len(img[1].imagePullSecrets) |-> ApplyOperation("secret", TRUE, "target")]

InstallOrUpdateOps(g) ==
    <<ensureNamespace("nsDeployment", "target")>> \o ensureSecrets(g)
    \o <<ApplyOperation("repo", TRUE, ""), ApplyOperation("helmRelease", TRUE, "")>>

\* reconcileGatewayClassFunc returns a nil MutateFn
ConfigureOps(g) ==
    <<ensureNamespace("nsGateway", ""), ApplyOperation("gatewayclass", FALSE, ""),
      ApplyOperation("envoyProxy", TRUE, ""), ApplyOperation("gateway", TRUE, "")>>

-----------------------------------------------------------------------------
(* Idempotent apply primitive *)

\* what a store keeps of a written object and hands back on Get: schema-less
\* content comes back as decoded JSON values ([]interface{} and
\* map[string]interface{}), whatever Go values were written; typed objects
\* come back in the types they were written in
Decode(spec) ==
    IF "held" \in DOMAIN spec THEN [spec EXCEPT !.held = "json"] ELSE spec

\* controllerutil.CreateOrUpdate updates only when the MutateFn changed the
\* object it read; the comparison is a deep equality of the Go values, under
\* which a value of another Go type is a different value
NeedsUpdate(existing, mutated) == existing # mutated

\* variant of CreateOrUpdateCall: a plain create, which the store rejects
\* for an object that exists
CreateOrUpdateCall_CreateOnly(st, k, client, op, g, fault) ==
    LET o == ObjectIn(st, client, op.obj)
        m == IF op.f THEN Mutate(g, st, op.obj, FreshSpec(op.obj))
             ELSE [spec |-> FreshSpec(op.obj), err |-> NoError]
    IN
    IF fault THEN [st |-> st, err |-> StoreError("Forbidden"), writes |-> {}]
    ELSE IF ~KindRegistered(k, op.obj)
    THEN [st |-> st, err |-> StoreError("NoKindMatchError"), writes |-> {}]
    ELSE IF IsError(m.err) THEN [st |-> st, err |-> m.err, writes |-> {}]
    ELSE IF Exists(o) THEN [st |-> st, err |-> StoreError("AlreadyExists"), writes |-> {}]
    ELSE [st |-> PutObject(st, client, op.obj, Live(Decode(m.spec))), err |-> NoError,
          writes |-> {<<"create", op.obj>>}]

\* one controllerutil.CreateOrUpdate call; fault: the store refuses the call
CreateOrUpdateCall(st, k, client, op, g, fault) ==
    LET o == ObjectIn(st, client, op.obj)
        from == IF Exists(o) THEN o.spec ELSE FreshSpec(op.obj)
        m == IF op.f THEN Mutate(g, st, op.obj, from) ELSE [spec |-> from, err |-> NoError]
    IN
    IF fault THEN [st |-> st, err |-> StoreError("Forbidden"), writes |-> {}]
    ELSE IF ~KindRegistered(k, op.obj)
    THEN [st |-> st, err |-> StoreError("NoKindMatchError"), writes |-> {}]
    ELSE IF IsError(m.err) THEN [st |-> st, err |-> m.err, writes |-> {}]
    ELSE IF ~Exists(o)
    THEN [st |-> PutObject(st, client, op.obj, Live(Decode(m.spec))), err |-> NoError,
          writes |-> {<<"create", op.obj>>}]
    ELSE IF NeedsUpdate(o.spec, m.spec)
    THEN [st |-> PutObject(st, client, op.obj, [o EXCEPT !.spec = Decode(m.spec)]),
          err |-> NoError, writes |-> {<<"update", op.obj>>}]
    ELSE [st |-> st, err |-> NoError, writes |-> {}]

\* variant of OperationClient: the override of an operation is not looked at
OperationClient_BatchOnly(c, op) == c

\* deployment_test.go:489-492: the client an operation is applied with
OperationClient(c, op) == IF op.c # "" THEN op.c ELSE c

\* fp: the position of the operation the store refuses (0: none)
RECURSIVE createOrUpdateLoop(_, _, _, _, _, _, _, _)
createOrUpdateLoop(st, k, c, ops, g, fp, i, writes) ==
    IF i > Len(ops)
    THEN [st |-> st, err |-> NoError, writes |-> writes, applied |-> Len(ops)]
    ELSE CHOOSE out \in
            {IF IsError(r.err)
             THEN [st |-> r.st, err |-> r.err, writes |-> writes, applied |-> i - 1]
             ELSE createOrUpdateLoop(r.st, k, c, ops, g, fp, i + 1, writes \cup r.writes)
                : r \in {CreateOrUpdateCall(st, k, OperationClient(c, ops[i]), ops[i],
                                            g, fp = i)}} : TRUE

createOrUpdate(st, k, c, ops, g, fp) == createOrUpdateLoop(st, k, c, ops, g, fp, 1, {})

InstallOrUpdate(st, k, g, fp) == createOrUpdate(st, k, "platform", InstallOrUpdateOps(g), g, fp)

\* variant of ConfigureReturn: the error of the batch handed back as it is
ConfigureReturn_Unconverted(err) == err

\* deployment_test.go:306-310
ConfigureReturn(err) ==
    IF IsCRDNotFoundError(err) THEN NewRetryableError(err, RequeueCRDNotFound) ELSE err

Configure(st, k, g, fp) ==
    LET r == createOrUpdate(st, k, "target", ConfigureOps(g), g, fp) IN
    [r EXCEPT !.err = ConfigureReturn(r.err)]

-----------------------------------------------------------------------------
(* Configuration and initial objects *)

ScopeLabel == <<"gateway", "true">>

Terms ==
    <<[ref |-> <<>>, selector |-> <<[matchPurpose |-> "", matchLabels |-> {ScopeLabel}]>>],
      [ref |-> <<[name |-> "other", namespace |-> ""]>>, selector |-> <<>>]>>

ImagesConfig(secrets) ==
    [envoyProxy |-> "envoy:distroless", envoyGateway |-> "gateway:v1", ratelimit |-> "",
     imagePullSecrets |-> secrets]

Configs ==
    {[clusters |-> Terms,
      envoyGateway |-> [images |-> img,
                        chart |-> [url |-> "oci://gateway-helm", tag |-> "1.5.4", secretRef |-> ""]],
      dns |-> [baseDomain |-> "example.com"]]
        : img \in {<<>>, <<ImagesConfig(<<>>)>>, <<ImagesConfig(<<PullSecretName>>)>>}}

NoCluster ==
    [exists |-> FALSE, name |-> ClusterName, namespace |-> ClusterNamespace,
     labels |-> {}, purposes |-> {}, annotations |-> {}, finalizers |-> {},
     deleting |-> FALSE]

NewCluster(labels, finalizers) ==
    [NoCluster EXCEPT !.exists = TRUE, !.labels = labels, !.finalizers = finalizers]

SourceSecretSpec == [data |-> "dockerconfig", type |-> "kubernetes.io/dockerconfigjson"]

-----------------------------------------------------------------------------
(* A Reconcile run *)

NoResult == [requeueAfter |-> 0, err |-> NoError]

\* either store can hold an object of any identity
EmptyStores ==
    [client \in {"platform", "target"} |-> [id \in PlatformIds \cup TargetIds |-> Absent]]

\* the record of the run's latest call into the gateway manager
NoCall ==
    [name |-> "none", err |-> NoError, issued |-> <<>>, remaining |-> <<>>, writes |-> {}]

\* what a run found when it started, if it keeps that: <<>> or
\* <<[cluster, stores, kinds]>>
NoStart == <<>>

IdleRun ==
    [pc |-> "idle", c |-> NoCluster, stale |-> FALSE, access |-> "none", hint |-> 0,
     path |-> "none", log |-> {}, call |-> NoCall, res |-> NoResult, start |-> NoStart]

\* the gateway manager buildGatewayManager returns
GatewayManager(cfg, c) ==
    [cluster |-> c, envoyConfig |-> cfg.envoyGateway, dnsConfig |-> cfg.dns,
     fluxKubeconfig |-> KubeconfigSecret]

\* variants of ReconcileReturn: the error handed back unconverted, and the
\* retry hint of a retryable error dropped
ReconcileReturn_Unconverted(res, err) == [requeueAfter |-> res, err |-> err]

ReconcileReturn_Dropped(res, err) ==
    IF IsRetryableError(err)
    THEN [requeueAfter |-> 0, err |-> NoError]
    ELSE [requeueAfter |-> res, err |-> err]

\* variants of ReconcileReturn: one delay for every retryable error, and the
\* retryable error handed back next to its delay
ReconcileReturn_FixedDelay(res, err) ==
    IF IsRetryableError(err)
    THEN [requeueAfter |-> RequeueRemainingResources, err |-> NoError]
    ELSE [requeueAfter |-> res, err |-> err]

ReconcileReturn_KeepsError(res, err) ==
    IF IsRetryableError(err)
    THEN [requeueAfter |-> err.after, err |-> err]
    ELSE [requeueAfter |-> res, err |-> err]

\* variant of ReconcileReturn: every error turned into a requeue
ReconcileReturn_RequeuesAll(res, err) ==
    IF IsError(err)
    THEN [requeueAfter |-> IF IsRetryableError(err) THEN err.after
                           ELSE RequeueRemainingResources,
          err |-> NoError]
    ELSE [requeueAfter |-> res, err |-> err]

\* controller.go:99-105: what Reconcile returns for reconcile's (res, err)
ReconcileReturn(res, err) ==
    IF IsRetryableError(err)
    THEN [requeueAfter |-> err.after, err |-> NoError]
    ELSE [requeueAfter |-> res, err |-> err]

\* the work queue adds the request again after an error or a requeue-after
Requeues(res) == res.requeueAfter > 0 \/ IsError(res.err)

\* the run ends: reconcile returns (res, err) and Reconcile converts it; q tells
\* whether a request for the cluster is already waiting in the queue
\* variant of Finish: the run hands back no requeue-after of its own
Finish_NoRequeue(r, res, err, q) ==
    LET ret == ReconcileReturn(0, err) IN
    /\ run' = [r EXCEPT !.pc = "done", !.res = ret, !.start = NoStart]
    /\ queued' = (q \/ Requeues(ret))

Finish(r, res, err, q) ==
    LET ret == ReconcileReturn(res, err) IN
    /\ run' = [r EXCEPT !.pc = "done", !.res = ret, !.start = NoStart]
    /\ queued' = (q \/ Requeues(ret))

Init ==
    /\ config \in Configs
    /\ cluster \in {NewCluster(l, {OtherFinalizer}) : l \in {{}, {ScopeLabel}}}
    /\ stores = [EmptyStores EXCEPT !.platform["sourceSecret"] = Live(SourceSecretSpec)]
    /\ kinds = {"flux"}
    /\ run = IdleRun
    /\ queued = TRUE
    /\ budget = [external |-> MaxExternal, faults |-> MaxFaults]

\* a store call may be refused while the fault budget lasts
FaultChoices == IF budget.faults > 0 THEN {FALSE, TRUE} ELSE {FALSE}

IsFault(err) == ErrorsIs(err, "Forbidden")

Charge(err) ==
    budget' = IF IsFault(err) THEN [budget EXCEPT !.faults = @ - 1] ELSE budget

Active == run.pc \notin {"idle", "done", "abandoned"}

\* the answer of the store to the Get of the cluster
GetCluster(fault) ==
    IF fault THEN StoreError("Forbidden")
    ELSE IF ~cluster.exists THEN StoreError("NotFound")
    ELSE NoError

\* variant of GetClusterReturn: a missing cluster is an error like any other
GetClusterReturn_NotFoundIsError(err) ==
    IF IsError(err) THEN Wrap("errFailedToGetCluster", err) ELSE NoError

\* controller.go:113-119: what reconcile returns for the answer to its Get
GetClusterReturn(err) ==
    IF ~IsError(err) \/ IsNotFound(err) THEN NoError
    ELSE Wrap("errFailedToGetCluster", err)

\* controller.go:111-119; found is what the run keeps of the state it starts
\* in, for the comparison of runs
StartRunFrom(found) ==
    /\ ~Active
    /\ queued
    /\ \E fault \in FaultChoices :
        LET err == GetClusterReturn(GetCluster(fault)) IN
        /\ IF fault \/ ~cluster.exists
           THEN Finish(IdleRun, 0, err, FALSE)
           ELSE /\ run' = [IdleRun EXCEPT !.pc = "annotation", !.c = cluster,
                                         !.start = found]
                /\ queued' = FALSE
        /\ Charge(err)
    /\ UNCHANGED <<config, cluster, stores, kinds>>

StartRun == StartRunFrom(NoStart)

\* variants of EffectiveOperation: the gateway key alone is looked at, and the
\* generic key is looked at first
EffectiveOperation_GatewayOnly(ann) ==
    [ok |-> HasKey(ann, GatewayOperationAnnotation),
     op |-> Lookup(ann, GatewayOperationAnnotation)]

EffectiveOperation_GenericFirst(ann) ==
    IF HasKey(ann, GenericOperationAnnotation)
    THEN [ok |-> TRUE, op |-> Lookup(ann, GenericOperationAnnotation)]
    ELSE [ok |-> HasKey(ann, GatewayOperationAnnotation),
          op |-> Lookup(ann, GatewayOperationAnnotation)]

\* controller.go:123-127: the operation annotation that decides the run
EffectiveOperation(ann) ==
    IF HasKey(ann, GatewayOperationAnnotation)
    THEN [ok |-> TRUE, op |-> Lookup(ann, GatewayOperationAnnotation)]
    ELSE [ok |-> HasKey(ann, GenericOperationAnnotation),
          op |-> Lookup(ann, GenericOperationAnnotation)]

\* controller.go:135: the annotation key EnsureAnnotation deletes
ClearedAnnotation == GenericOperationAnnotation

\* an object with a deletion marker leaves the store with its last finalizer
Settle(c) == IF c.deleting /\ c.finalizers = {} THEN NoCluster ELSE c

\* variant of StepAfterShouldReconcile: the finalizer written before access
StepAfterShouldReconcile_Finalizer == "addFinalizer"

\* controller.go:147: what a run does first once shouldReconcile holds
StepAfterShouldReconcile == "build"

\* controller.go:142-147
AfterAnnotation(r, q) ==
    IF ~shouldReconcile(config.clusters, r.c)
    THEN Finish(r, 0, NoError, q)
    ELSE run' = [r EXCEPT !.pc = StepAfterShouldReconcile] /\ queued' = q

\* controller.go:121-145
HandleAnnotation ==
    /\ run.pc = "annotation"
    /\ LET e == EffectiveOperation(run.c.annotations) IN
       IF e.ok /\ e.op = OperationIgnore
       THEN Finish(run, 0, NoError, queued) /\ UNCHANGED <<cluster, budget>>
       ELSE IF e.ok /\ e.op = OperationReconcile /\ HasKey(run.c.annotations, ClearedAnnotation)
       THEN \E fault \in FaultChoices :
              LET err == IF fault THEN StoreError("Forbidden")
                         ELSE IF ~cluster.exists THEN StoreError("NotFound")
                         ELSE NoError
                  patched == [cluster EXCEPT !.annotations = DeleteKey(@, ClearedAnnotation)]
              IN
              /\ Charge(err)
              /\ IF IsError(err)
                 THEN /\ Finish(run, 0, Wrap("errFailedToRemoveOperationAnnotation", err), queued)
                      /\ UNCHANGED cluster
                 ELSE /\ cluster' = patched
                      /\ AfterAnnotation([run EXCEPT !.c = patched, !.stale = FALSE,
                                                     !.log = @ \cup {<<"patch", "cluster">>}],
                                         TRUE)
       ELSE AfterAnnotation(run, queued) /\ UNCHANGED <<cluster, budget>>
    /\ UNCHANGED <<config, stores, kinds>>

\* variant of IsTeardown: the deletion marker alone decides
IsTeardown_DeletionOnly(terms, c) == c.deleting

\* controller.go:152
IsTeardown(terms, c) == c.deleting \/ ~enabledForCluster(terms, c)

\* variant of FirstConvergeStep: the objects are written without the finalizer
FirstConvergeStep_Install == "install"

\* controller.go:178-183: the converge path starts with the finalizer
FirstConvergeStep == "addFinalizer"

\* controller.go:147-152 and 203-243
BuildGatewayManager ==
    /\ run.pc = "build"
    /\ \/ /\ run' = [run EXCEPT !.access = "ok",
                                !.path = IF IsTeardown(config.clusters, run.c)
                                         THEN "teardown" ELSE "converge",
                                !.pc = IF IsTeardown(config.clusters, run.c)
                                       THEN "cleanup" ELSE FirstConvergeStep]
          /\ UNCHANGED <<queued, budget>>
       \/ \E d \in 1..MaxWaitHint :
          /\ Finish([run EXCEPT !.access = "notyet", !.hint = d], 0,
                    Wrap("errFailedToBuildGatewayManager",
                         NewRetryableError(StoreError("errClusterAccessNotYetAvailable"), d)),
                    queued)
          /\ UNCHANGED budget
       \/ /\ budget.faults > 0
          /\ Finish([run EXCEPT !.access = "error"], 0,
                    Wrap("errFailedToBuildGatewayManager",
                         Wrap("errFailedToGetClusterAccess", StoreError("Forbidden"))),
                    queued)
          /\ budget' = [budget EXCEPT !.faults = @ - 1]
    /\ UNCHANGED <<config, cluster, stores, kinds>>

\* the environment's answers to the deletes of one ensureDeletionOfObjects call
\* (an answer makes a difference for a live object only, and no delete is
\* issued after a refused one)
DeleteChoices(client, objs) ==
    {ch \in [1..Len(objs) -> {"removed", "lingers", "fault"}] :
        /\ Cardinality({i \in 1..Len(objs) : ch[i] = "fault"})
              <= (IF budget.faults > 0 THEN 1 ELSE 0)
        /\ \A i \in 1..Len(objs) :
              ch[i] = "lingers" =>
                /\ ObjectIn(stores, client, objs[i]).ph = "live"
                /\ KindRegistered(kinds, objs[i])
                /\ \A j \in 1..(i - 1) : ch[j] # "fault"}

\* the objects whose delete was answered not-found or kind-not-registered
ConfirmedGone(r) ==
    {r.issued[i] : i \in 1..(IF ErrorsIs(r.err, "errFailedToDeleteObject")
                             THEN Len(r.issued) - 1 ELSE Len(r.issued))}
        \ SeqToSet(r.remaining)

DeletionCall(name, r) ==
    [name |-> name, err |-> r.err, issued |-> r.issued, remaining |-> r.remaining,
     writes |-> {}]

DeletionLog(r) ==
    {<<"delete", id>> : id \in SeqToSet(r.issued)} \cup {<<"gone", id>> : id \in ConfirmedGone(r)}

\* controller.go:154-159
CleanupStep ==
    /\ run.pc = "cleanup"
    /\ \E ch \in DeleteChoices("target", CleanupObjects) :
        \E r \in {Cleanup(stores, kinds, ch)} :
        LET next == [run EXCEPT !.call = DeletionCall("Cleanup", r),
                                !.log = @ \cup DeletionLog(r)]
        IN
        /\ stores' = r.st
        /\ Charge(r.err)
        /\ IF IsError(r.err)
           THEN Finish(next, 0, r.err, queued)
           ELSE run' = [next EXCEPT !.pc = "uninstall"] /\ queued' = queued
    /\ UNCHANGED <<config, cluster, kinds>>

\* controller.go:161-167
UninstallStep ==
    /\ run.pc = "uninstall"
    /\ \E ch \in DeleteChoices("platform", UninstallObjects) :
        \E r \in {Uninstall(stores, kinds, ch)} :
        LET next == [run EXCEPT !.call = DeletionCall("Uninstall", r),
                                !.log = @ \cup DeletionLog(r)]
        IN
        /\ stores' = r.st
        /\ Charge(r.err)
        /\ IF IsError(r.err)
           THEN Finish(next, 0, r.err, queued)
           ELSE run' = [next EXCEPT !.pc = "removeFinalizer"] /\ queued' = queued
    /\ UNCHANGED <<config, cluster, kinds>>

\* client.Update of the Cluster object read at the start of the run: the store
\* rejects an update made on a stale version
UpdateError(fault) ==
    IF fault THEN StoreError("Forbidden")
    ELSE IF ~cluster.exists THEN StoreError("NotFound")
    ELSE IF run.stale THEN StoreError("Conflict")
    ELSE NoError

\* variant of RemoveFinalizer: every finalizer is taken off
RemoveFinalizer_All(c, f) == [c EXCEPT !.finalizers = {}]

\* controller.go:169: controllerutil.RemoveFinalizer
RemoveFinalizer(c, f) == [c EXCEPT !.finalizers = @ \ {f}]

\* controller.go:169-176
RemoveFinalizerStep ==
    /\ run.pc = "removeFinalizer"
    /\ IF ContainsFinalizer(run.c, GatewayFinalizerOnCluster)
       THEN \E fault \in FaultChoices :
              LET err == UpdateError(fault)
                  c == RemoveFinalizer(run.c, GatewayFinalizerOnCluster)
              IN
              /\ Charge(err)
              /\ IF IsError(err)
                 THEN Finish(run, 0, err, queued) /\ UNCHANGED cluster
                 ELSE /\ cluster' = Settle(c)
                      /\ Finish([run EXCEPT !.c = c, !.log = @ \cup {<<"update", "cluster">>}],
                                0, NoError, TRUE)
       ELSE Finish(run, 0, NoError, queued) /\ UNCHANGED <<cluster, budget>>
    /\ UNCHANGED <<config, stores, kinds>>

\* controller.go:179-183
AddFinalizerStep ==
    /\ run.pc = "addFinalizer"
    /\ IF ~ContainsFinalizer(run.c, GatewayFinalizerOnCluster)
       THEN \E fault \in FaultChoices :
              LET err == UpdateError(fault)
                  c == [run.c EXCEPT !.finalizers = @ \cup {GatewayFinalizerOnCluster}]
              IN
              /\ Charge(err)
              /\ IF IsError(err)
                 THEN Finish(run, 0, err, queued) /\ UNCHANGED cluster
                 ELSE /\ cluster' = c
                      /\ run' = [run EXCEPT !.pc = "install", !.c = c,
                                            !.log = @ \cup {<<"update", "cluster">>}]
                      /\ queued' = TRUE
       ELSE /\ run' = [run EXCEPT !.pc = "install"]
            /\ UNCHANGED <<cluster, queued, budget>>
    /\ UNCHANGED <<config, stores, kinds>>

\* the position of the operation of a batch the store refuses (0: none)
FaultPositions(n) == IF budget.faults > 0 THEN 0..n ELSE {0}

ApplyCall(name, r) ==
    [name |-> name, err |-> r.err, issued |-> <<>>, remaining |-> <<>>, writes |-> r.writes]

\* controller.go:185-187
InstallStep ==
    /\ run.pc = "install"
    /\ LET g == GatewayManager(config, run.c) IN
       \E fp \in FaultPositions(Len(InstallOrUpdateOps(g))) :
        \E r \in {InstallOrUpdate(stores, kinds, g, fp)} :
        LET next == [run EXCEPT !.call = ApplyCall("InstallOrUpdate", r),
                                !.log = @ \cup r.writes]
        IN
        /\ stores' = r.st
        /\ Charge(r.err)
        /\ IF IsError(r.err)
           THEN Finish(next, 0, r.err, queued)
           ELSE run' = [next EXCEPT !.pc = "configure"] /\ queued' = queued
    /\ UNCHANGED <<config, cluster, kinds>>

\* controller.go:188-193
ConfigureStep ==
    /\ run.pc = "configure"
    /\ LET g == GatewayManager(config, run.c) IN
       \E fp \in FaultPositions(Len(ConfigureOps(g))) :
        \E r \in {Configure(stores, kinds, g, fp)} :
        LET next == [run EXCEPT !.call = ApplyCall("Configure", r),
                                !.log = @ \cup r.writes]
        IN
        /\ stores' = r.st
        /\ Charge(r.err)
        /\ IF IsError(r.err)
           THEN Finish(next, 0, r.err, queued)
           ELSE Finish(next, RequeueConverged, NoError, queued)
    /\ UNCHANGED <<config, cluster, kinds>>

-----------------------------------------------------------------------------
(* The environment: users and other controllers writing to the stores, the  *)
(* stores finishing deletions, the chart delivery installing the CRDs.      *)

Spend == budget.external > 0 /\ budget' = [budget EXCEPT !.external = @ - 1]

\* a write to the Cluster object by another party: the run in progress now
\* holds a stale version, and the watch queues a request
ClusterWrite(c) ==
    /\ cluster.exists
    /\ c # cluster
    /\ cluster' = c
    /\ run' = [run EXCEPT !.stale = Active]
    /\ queued' = TRUE
    /\ Spend
    /\ UNCHANGED <<config, stores, kinds>>

RequestDeletion ==
    /\ ~cluster.deleting
    /\ ClusterWrite(Settle([cluster EXCEPT !.deleting = TRUE]))

SetLabels ==
    \E l \in {{}, {ScopeLabel}} : ClusterWrite([cluster EXCEPT !.labels = l])

SetOperationAnnotation ==
    \E key \in {GatewayOperationAnnotation, GenericOperationAnnotation} :
    \E v \in {"", OperationIgnore, OperationReconcile} :
        ClusterWrite([cluster EXCEPT !.annotations =
            DeleteKey(@, key) \cup (IF v = "" THEN {} ELSE {<<key, v>>})])

RemoveOtherFinalizer ==
    /\ OtherFinalizer \in cluster.finalizers
    /\ ClusterWrite(Settle([cluster EXCEPT !.finalizers = @ \ {OtherFinalizer}]))

ManagedObjects ==
    {<<"platform", id>> : id \in {"repo", "helmRelease"}}
        \cup {<<"target", id>> : id \in TargetIds}

\* the store removes a terminating object once its finalizers are released
StoreCompletesDeletion ==
    \E m \in ManagedObjects :
        /\ ObjectIn(stores, m[1], m[2]).ph = "terminating"
        /\ stores' = PutObject(stores, m[1], m[2], Absent)
        /\ UNCHANGED <<config, cluster, kinds, run, queued, budget>>

\* the chart delivery controller installs the chart of a HelmRelease, and with
\* it the CRDs of the gateway kinds, on the target cluster
ChartDelivery ==
    /\ ObjectIn(stores, "platform", "helmRelease").ph = "live"
    /\ ObjectIn(stores, "platform", "helmRelease").spec.chartRef = "OCIRepository"
    /\ ObjectIn(stores, "platform", "repo").ph = "live"
    /\ "gateway" \notin kinds
    /\ kinds' = kinds \cup {"gateway"}
    /\ UNCHANGED <<config, cluster, stores, run, queued, budget>>

\* a periodic resync or a watch event queues a request for the cluster
Resync ==
    /\ ~queued
    /\ queued' = TRUE
    /\ UNCHANGED <<config, cluster, stores, kinds, run, budget>>

Next ==
    \/ StartRun
    \/ HandleAnnotation
    \/ BuildGatewayManager
    \/ CleanupStep
    \/ UninstallStep
    \/ RemoveFinalizerStep
    \/ AddFinalizerStep
    \/ InstallStep
    \/ ConfigureStep
    \/ RequestDeletion
    \/ SetLabels
    \/ SetOperationAnnotation
    \/ RemoveOtherFinalizer
    \/ StoreCompletesDeletion
    \/ ChartDelivery
    \/ Resync

Spec == Init /\ [][Next]_vars

-----------------------------------------------------------------------------
(* Properties of the reconciler.                                            *)

HasGatewayFinalizer(c) == ContainsFinalizer(c, GatewayFinalizerOnCluster)

AllAbsent(st, client, objs) ==
    \A i \in 1..Len(objs) : ~Exists(ObjectIn(st, client, objs[i]))

TeardownObjects == SeqToSet(CleanupObjects) \cup SeqToSet(UninstallObjects)

TeardownObjectsAbsent(st) ==
    AllAbsent(st, "target", CleanupObjects) /\ AllAbsent(st, "platform", UninstallObjects)

\* the objects the converge path creates and no teardown call deletes
KeptObjects == {"nsDeployment", "nsGateway", "secret"}

FinalizerRemovedNow == HasGatewayFinalizer(cluster) /\ ~HasGatewayFinalizer(cluster')

FinalizerAddedNow == ~HasGatewayFinalizer(cluster) /\ HasGatewayFinalizer(cluster')

ClusterUpdated(r) == <<"update", "cluster">> \in r.log

ManagedWrites(r) ==
    {e \in r.log : e[1] \in {"create", "update"} /\ e[2] # "cluster"}

DeletesIssued(r) == {e[2] : e \in {x \in r.log : x[1] = "delete"}}

GoneAnswers(r) == {e[2] : e \in {x \in r.log : x[1] = "gone"}}

C2_FinalizerOnlyWithAccess ==
    [][/\ FinalizerAddedNow => run.access = "ok" /\ run.pc = "addFinalizer"
       /\ run'.access \in {"notyet", "error"} =>
            ~ClusterUpdated(run') /\ ~FinalizerAddedNow
      ]_vars

\* C2 witness: a converge run with access has written the finalizer
C2_Witness ==
    /\ run.access = "ok"
    /\ run.path = "converge"
    /\ ClusterUpdated(run)
    /\ HasGatewayFinalizer(cluster)

TeardownPositions == {"cleanup", "uninstall", "removeFinalizer"}

ConvergePositions == {"addFinalizer", "install", "configure"}

\* C3: a run that passed shouldReconcile and holds access is on the teardown
\* path exactly when the cluster it read has a deletion marker or matches no
\* term, and on the converge path otherwise; only a run whose cluster is in
\* scope and not being deleted creates or updates a managed object, and only
\* a run whose cluster is being deleted or out of scope issues a delete.
C3_BranchOnDeletionOrScope ==
    LET tearsDown == run.c.deleting \/ ~enabledForCluster(config.clusters, run.c) IN
    /\ run.pc \in TeardownPositions => run.access = "ok" /\ tearsDown
    /\ run.pc \in ConvergePositions => run.access = "ok" /\ ~tearsDown
    /\ run.pc \in TeardownPositions \cup ConvergePositions =>
            shouldReconcile(config.clusters, run.c)
    /\ ManagedWrites(run) # {} => run.access = "ok" /\ ~tearsDown
    /\ DeletesIssued(run) # {} => run.access = "ok" /\ tearsDown

\* C3 witness: a cluster that carries the finalizer, is not being deleted and
\* matches no term is on the teardown path
C3_Witness ==
    /\ run.pc = "cleanup"
    /\ HasGatewayFinalizer(run.c)
    /\ ~run.c.deleting
    /\ ~enabledForCluster(config.clusters, run.c)

\* C4: on the teardown path Cleanup is called before Uninstall; when Cleanup
\* returns remaining-resources or any other error the run ends there, with
\* no delete issued for the chart release or chart source and the finalizer
\* still on the cluster; when Uninstall returns remaining-resources the
\* finalizer stays too; in both remaining-resources cases Reconcile returns
\* no error and a requeue-after equal to the condition's backoff.
C4_TeardownOrder ==
    LET uninstallIssued == DeletesIssued(run) \cap SeqToSet(UninstallObjects) # {}
        keepsFinalizer ==
            /\ ~ClusterUpdated(run)
            /\ HasGatewayFinalizer(run.c) => HasGatewayFinalizer(cluster)
    IN
    /\ uninstallIssued => SeqToSet(CleanupObjects) \subseteq GoneAnswers(run)
    /\ run.pc = "uninstall" => run.call.name = "Cleanup" /\ run.call.err = NoError
    /\ run.call.name = "Cleanup" /\ IsError(run.call.err) =>
            /\ run.pc = "done"
            /\ ~uninstallIssued
            /\ keepsFinalizer
    /\ run.call.name = "Uninstall" /\ IsError(run.call.err) =>
            /\ run.pc = "done"
            /\ keepsFinalizer
    /\ run.call.name \in {"Cleanup", "Uninstall"}
         /\ IsRemainingResourcesError(run.call.err) =>
            run.res = [requeueAfter |-> RequeueRemainingResources, err |-> NoError]

\* C4 witness: a teardown run ended at Cleanup with remaining resources and
\* a requeue after the backoff, the finalizer still on the cluster
C4_Witness ==
    /\ run.pc = "done"
    /\ run.call.name = "Cleanup"
    /\ IsRemainingResourcesError(run.call.err)
    /\ run.res.requeueAfter = RequeueRemainingResources
    /\ HasGatewayFinalizer(cluster)

\* C6 as stated: the remaining-resources condition of a deletion call lists
\* exactly the objects whose delete was accepted in that call, and never an
\* object that was already absent.
C6_ListsExactlyRemaining ==
    run.call.name \in {"Cleanup", "Uninstall"}
      /\ IsRemainingResourcesError(run.call.err) =>
        SeqToSet(run.call.err.objs) = SeqToSet(run.call.remaining)

\* what the deletion call of a step finds and answers
DeletionStep(pos, name) == run.pc = pos /\ run'.call.name = name

PresentIn(st, k, client, objs) ==
    {objs[i] : i \in {j \in 1..Len(objs) :
        Exists(ObjectIn(st, client, objs[j])) /\ KindRegistered(k, objs[j])}}

\* C7: Cleanup and Uninstall called when every object of their set is absent
\* return success and leave the stores as they were, so that a further call
\* finds the same state and succeeds again.
C7_IdempotentWhenAbsent ==
    [][/\ DeletionStep("cleanup", "Cleanup")
            /\ AllAbsent(stores, "target", CleanupObjects)
            /\ ~IsFault(run'.call.err) =>
                /\ run'.call.err = NoError
                /\ stores' = stores
                /\ \A ch \in [1..Len(CleanupObjects) -> {"removed", "lingers"}] :
                    LET again == Cleanup(stores', kinds', ch) IN
                    again.err = NoError /\ again.st = stores'
       /\ DeletionStep("uninstall", "Uninstall")
            /\ AllAbsent(stores, "platform", UninstallObjects)
            /\ ~IsFault(run'.call.err) =>
                /\ run'.call.err = NoError
                /\ stores' = stores
                /\ \A ch \in [1..Len(UninstallObjects) -> {"removed", "lingers"}] :
                    LET again == Uninstall(stores', kinds', ch) IN
                    again.err = NoError /\ again.st = stores'
      ]_vars

\* C7 witness: Cleanup and then Uninstall have returned success in a run that
\* found all five objects absent after an earlier converge run created them
C7_Witness ==
    /\ run.pc = "removeFinalizer"
    /\ run.call.name = "Uninstall"
    /\ run.call.err = NoError
    /\ TeardownObjects \subseteq GoneAnswers(run)
    /\ "gateway" \in kinds

\* C8: a call of Cleanup or Uninstall made while an object of its set is
\* present returns the remaining-resources condition (unless the store
\* refuses a delete), and a call that returns success was made with every
\* object of the set absent, which they still are after it.
C8_SuccessOnlyWhenAbsent ==
    [][/\ DeletionStep("cleanup", "Cleanup") =>
            /\ PresentIn(stores, kinds, "target", CleanupObjects) # {}
                 /\ ~IsFault(run'.call.err) =>
                    IsRemainingResourcesError(run'.call.err)
            /\ run'.call.err = NoError =>
                    /\ PresentIn(stores, kinds, "target", CleanupObjects) = {}
                    /\ AllAbsent(stores', "target", CleanupObjects)
       /\ DeletionStep("uninstall", "Uninstall") =>
            /\ PresentIn(stores, kinds, "platform", UninstallObjects) # {}
                 /\ ~IsFault(run'.call.err) =>
                    IsRemainingResourcesError(run'.call.err)
            /\ run'.call.err = NoError =>
                    /\ PresentIn(stores, kinds, "platform", UninstallObjects) = {}
                    /\ AllAbsent(stores', "platform", UninstallObjects)
      ]_vars

\* C8 witness: Uninstall returned remaining-resources for the chart release
\* and chart source it found, both of which the store has removed since
C8_Witness ==
    /\ run.pc = "done"
    /\ run.call.name = "Uninstall"
    /\ IsRemainingResourcesError(run.call.err)
    /\ SeqToSet(run.call.remaining) = SeqToSet(UninstallObjects)
    /\ AllAbsent(stores, "platform", UninstallObjects)

\* what one deletion call must have done, given the stores before and after
DeletionAnswers(client, objs) ==
    LET call == run'.call
        present == PresentIn(stores, kinds, client, objs)
        pending == SeqToSet(call.remaining)
        issued == SeqToSet(call.issued)
        refused == IF IsFault(call.err) THEN {call.issued[Len(call.issued)]} ELSE {}
    IN
    /\ ~IsFault(call.err) =>
            /\ call.issued = objs
            /\ call.err = NoError \/ IsRemainingResourcesError(call.err)
    /\ \A id \in issued \ refused : ObjectIn(stores', client, id).ph # "live"
    /\ pending = (issued \ refused) \cap present
    /\ IsRemainingResourcesError(call.err) <=> (~IsFault(call.err) /\ pending # {})

C10_SecondApplyWritesNothing ==
    [][/\ run.pc = "install" /\ run'.call.name = "InstallOrUpdate"
            /\ run'.call.err = NoError =>
                LET again == InstallOrUpdate(stores', kinds', GatewayManager(config, run.c), 0)
                IN again.err = NoError /\ again.writes = {} /\ again.st = stores'
       /\ run.pc = "configure" /\ run'.call.name = "Configure"
            /\ run'.call.err = NoError =>
                LET again == Configure(stores', kinds', GatewayManager(config, run.c), 0)
                IN again.err = NoError /\ again.writes = {} /\ again.st = stores'
      ]_vars

-----------------------------------------------------------------------------
(* Eventual teardown.  The runs are those of Spec under the conditions of  *)
(* C5: no store call is refused, the access broker hands out a client, the  *)
(* work queue delivers every queued request, a started run runs to its      *)
(* end, and the store completes the deletions it accepted.                  *)

LiveInit ==
    /\ config \in Configs
    /\ cluster \in {NewCluster(l, {OtherFinalizer}) : l \in {{}, {ScopeLabel}}}
    /\ stores = [EmptyStores EXCEPT !.platform["sourceSecret"] = Live(SourceSecretSpec)]
    /\ kinds = {"flux"}
    /\ run = IdleRun
    /\ queued = TRUE
    /\ budget = [external |-> MaxExternal, faults |-> 0]

\* buildGatewayManager when the access request is granted
BuildWithAccess == BuildGatewayManager /\ run'.access = "ok"

RunStep ==
    \/ HandleAnnotation
    \/ BuildWithAccess
    \/ CleanupStep
    \/ UninstallStep
    \/ RemoveFinalizerStep
    \/ AddFinalizerStep
    \/ InstallStep
    \/ ConfigureStep

LiveNext ==
    \/ StartRun
    \/ RunStep
    \/ RequestDeletion
    \/ SetLabels
    \/ SetOperationAnnotation
    \/ RemoveOtherFinalizer
    \/ StoreCompletesDeletion
    \/ ChartDelivery
    \/ Resync

LiveSpec ==
    /\ LiveInit
    /\ [][LiveNext]_vars
    /\ WF_vars(StartRun)
    /\ WF_vars(RunStep)
    /\ WF_vars(StoreCompletesDeletion)

\* the cluster carries the finalizer and is being deleted or out of scope
AwaitsTeardown ==
    /\ cluster.exists
    /\ HasGatewayFinalizer(cluster)
    /\ IsTeardown(config.clusters, cluster)

\* the cluster is in scope again and not being deleted
BackInScope == cluster.exists /\ ~IsTeardown(config.clusters, cluster)

TornDown == ~HasGatewayFinalizer(cluster) /\ TeardownObjectsAbsent(stores)

\* the operation annotation in force tells the reconciler to leave the
\* cluster alone
Ignored ==
    /\ cluster.exists
    /\ EffectiveOperation(cluster.annotations).ok
    /\ EffectiveOperation(cluster.annotations).op = OperationIgnore

\* C5 as stated: a cluster that carries the finalizer and is being deleted or
\* has left scope is eventually torn down (the five objects absent and the
\* finalizer removed), unless it comes back into scope.
C5_EventualTeardown == AwaitsTeardown ~> (TornDown \/ BackInScope)

\* C5 (amended): the same holds for as long as the cluster does not carry
\* the operation annotation "ignore", which makes every run return at once.
C5_EventualTeardownUnlessIgnored ==
    (AwaitsTeardown /\ ~Ignored) ~> (TornDown \/ BackInScope \/ Ignored)

\* C5 witness: a cluster that carried the finalizer and got a deletion marker
\* has been torn down by a run that found all five objects gone
C5_Witness ==
    /\ run.pc = "done"
    /\ run.path = "teardown"
    /\ run.c.deleting
    /\ ClusterUpdated(run)
    /\ TeardownObjects \subseteq GoneAnswers(run)
    /\ "gateway" \in kinds
    /\ TornDown

-----------------------------------------------------------------------------
(* Properties of the apply batch and of the error conversion.               *)

\* what a createOrUpdate call of batch ops against the batch client must have
\* done, given the stores before and after it: n operations applied (the
\* store holds what the MutateFn sets), each on the store of its override or
\* else of the batch client, the objects of the
\* later operations untouched, and the error of operation n + 1 handed back
\* as the store or the MutateFn gave it
BatchOutcome(ops, batch, g, unwrap(_)) ==
    LET clientOf(op) == IF op.c # "" THEN op.c ELSE batch
        other(cl) == IF cl = "platform" THEN "target" ELSE "platform"
        call == run'.call
    IN
    \E n \in 0..Len(ops) :
        /\ \A j \in 1..n :
            /\ Exists(ObjectIn(stores', clientOf(ops[j]), ops[j].obj))
            /\ ObjectIn(stores', other(clientOf(ops[j])), ops[j].obj)
                 = ObjectIn(stores, other(clientOf(ops[j])), ops[j].obj)
            /\ LET o == ObjectIn(stores', clientOf(ops[j]), ops[j].obj)
                   m == IF ops[j].f THEN Mutate(g, stores', ops[j].obj, o.spec)
                        ELSE [spec |-> o.spec, err |-> NoError]
               IN m.err = NoError /\ o.spec = Decode(m.spec)
        /\ \A j \in (n + 1)..Len(ops) :
            \A cl \in {"platform", "target"} :
                ObjectIn(stores', cl, ops[j].obj) = ObjectIn(stores, cl, ops[j].obj)
        /\ call.writes \subseteq {<<kind, ops[j].obj>> : kind \in {"create", "update"}, j \in 1..n}
        /\ IF n = Len(ops) THEN call.err = NoError
           ELSE /\ IsError(call.err)
                /\ \E fault \in {FALSE, TRUE} :
                    unwrap(call.err) =
                        CreateOrUpdateCall(stores', kinds, clientOf(ops[n + 1]), ops[n + 1],
                                           g, fault).err

SameError(err) == err

\* the error Configure wrapped into a retryable one
ConfigureCause(err) ==
    IF IsRetryableError(err) THEN [err EXCEPT !.chain = Tail(@), !.after = 0] ELSE err

\* C11: createOrUpdate applies its operations in list order, each with the
\* client of its override if it has one and with the batch client otherwise;
\* at the first operation that fails it returns the error of that operation
\* as it is, leaves the objects of the later operations untouched and the
\* earlier operations applied.
C11_BatchStopsAtFirstFailure ==
    [][/\ run.pc = "install" /\ run'.call.name = "InstallOrUpdate" =>
            BatchOutcome(InstallOrUpdateOps(GatewayManager(config, run.c)), "platform",
                         GatewayManager(config, run.c), SameError)
       /\ run.pc = "configure" /\ run'.call.name = "Configure" =>
            BatchOutcome(ConfigureOps(GatewayManager(config, run.c)), "target",
                         GatewayManager(config, run.c), ConfigureCause)
      ]_vars

\* C11 witness: InstallOrUpdate was refused at the chart source after it had
\* created the control-plane namespace on the target store; the chart
\* release was not attempted
C11_Witness ==
    /\ run.call.name = "InstallOrUpdate"
    /\ IsFault(run.call.err)
    /\ <<"create", "nsDeployment">> \in run.call.writes
    /\ Exists(ObjectIn(stores, "target", "nsDeployment"))
    /\ ~Exists(ObjectIn(stores, "platform", "repo"))
    /\ ~Exists(ObjectIn(stores, "platform", "helmRelease"))

ClusterPatched(r) == <<"patch", "cluster">> \in r.log

\* C12 as stated: a run that finds access not yet available, with wait hint
\* d, returns requeue-after d and no error and has changed nothing: not the
\* cluster's annotations or finalizers, not a managed object.
C12_NotYetChangesNothing ==
    run.access = "notyet" =>
        /\ run.res = [requeueAfter |-> run.hint, err |-> NoError]
        /\ run.log = {}

\* C12 (amended): such a run returns requeue-after d and no error, changes
\* no finalizer and creates, updates or deletes no managed object; the one
\* write it can have made is the removal of the generic operation annotation
\* of a cluster whose effective operation was "reconcile", which happens
\* before access is requested.
C12_NotYetOnlyClearsAnnotation ==
    run.access = "notyet" =>
        /\ run.pc = "done"
        /\ run.hint > 0
        /\ run.res = [requeueAfter |-> run.hint, err |-> NoError]
        /\ run.log \subseteq {<<"patch", "cluster">>}
        /\ run.call = NoCall
        /\ ClusterPatched(run) => ~HasKey(run.c.annotations, ClearedAnnotation)

\* C12 witness: access was not yet available with wait hint 2 in a run that
\* had removed the reconcile annotation
C12_Witness ==
    /\ run.access = "notyet"
    /\ run.hint = MaxWaitHint
    /\ run.res.requeueAfter = MaxWaitHint
    /\ ClusterPatched(run)

ApplyNames == {"InstallOrUpdate", "Configure"}

\* C13 as stated: a run in which InstallOrUpdate or Configure failed returns
\* that failure as its error and has changed neither the finalizers nor the
\* annotations of the cluster.
C13_FailedApplyChangesNoCluster ==
    run.call.name \in ApplyNames /\ IsError(run.call.err) =>
        /\ run.res.err = run.call.err
        /\ ~ClusterUpdated(run)
        /\ ~ClusterPatched(run)

\* InstallOrUpdate or Configure fails in this step
ApplyFailsNow ==
    /\ run.pc \in {"install", "configure"}
    /\ run'.pc = "done"
    /\ IsError(run'.call.err)

\* C13 (amended): when InstallOrUpdate or Configure fails the run ends at
\* once without a further write to the cluster: a non-retryable failure is
\* returned as the error, a retryable one (Configure meeting a kind that is
\* not registered) as requeue-after its delay and no error; the finalizer the
\* run wrote before InstallOrUpdate stays on the cluster and the annotation
\* it removed stays removed.
C13_FailedApplyKeepsFinalizer ==
    [][ApplyFailsNow =>
        /\ run'.call.name \in ApplyNames
        /\ cluster' = cluster
        /\ run'.c = run.c
        /\ run'.res = IF IsRetryableError(run'.call.err)
                      THEN [requeueAfter |-> run'.call.err.after, err |-> NoError]
                      ELSE [requeueAfter |-> 0, err |-> run'.call.err]
        /\ HasGatewayFinalizer(run'.c)
        /\ cluster'.exists /\ HasGatewayFinalizer(cluster')
        /\ ClusterPatched(run') => ~HasKey(run'.c.annotations, ClearedAnnotation)
      ]_vars

\* C13 witness: InstallOrUpdate was refused in the run that had just written
\* the finalizer, which is still on the cluster
C13_Witness ==
    /\ run.pc = "done"
    /\ run.call.name = "InstallOrUpdate"
    /\ IsFault(run.call.err)
    /\ run.res.err = run.call.err
    /\ ClusterUpdated(run)
    /\ HasGatewayFinalizer(cluster)

\* the CRDs of the chart source and chart release kinds get installed on the
\* platform cluster
FluxDelivery ==
    /\ "flux" \notin kinds
    /\ kinds' = kinds \cup {"flux"}
    /\ UNCHANGED <<config, cluster, stores, run, queued, budget>>

\* a platform cluster on which the flux kinds are not registered yet
ColdInit ==
    /\ config \in Configs
    /\ cluster \in {NewCluster(l, {OtherFinalizer}) : l \in {{}, {ScopeLabel}}}
    /\ stores = [EmptyStores EXCEPT !.platform["sourceSecret"] = Live(SourceSecretSpec)]
    /\ kinds = {}
    /\ run = IdleRun
    /\ queued = TRUE
    /\ budget = [external |-> MaxExternal, faults |-> MaxFaults]

ColdNext ==
    \/ StartRun
    \/ HandleAnnotation
    \/ BuildGatewayManager
    \/ CleanupStep
    \/ UninstallStep
    \/ RemoveFinalizerStep
    \/ AddFinalizerStep
    \/ InstallStep
    \/ ConfigureStep
    \/ RequestDeletion
    \/ SetLabels
    \/ StoreCompletesDeletion
    \/ ChartDelivery
    \/ FluxDelivery
    \/ Resync

ColdSpec == ColdInit /\ [][ColdNext]_vars

\* C14 as stated: InstallOrUpdate returns a retryable condition with the
\* 10-second backoff when an apply fails because the kind is not registered,
\* and a non-retryable error on every other apply failure.
C14_InstallOrUpdateRetryable ==
    run.call.name = "InstallOrUpdate" /\ IsError(run.call.err) =>
        IF IsCRDNotFoundError(run.call.err)
        THEN IsRetryableError(run.call.err) /\ run.call.err.after = RequeueCRDNotFound
        ELSE ~IsRetryableError(run.call.err)

\* the order in which Configure applies its objects
ConfigureOrder == <<"nsGateway", "gatewayclass", "envoyProxy", "gateway">>

\* C15: Configure applies the data-plane namespace, the gateway class, the
\* proxy configuration and the gateway in this order on the target store and
\* nothing on the platform store, stopping at the first failure; a failure
\* on a kind that is not registered is returned as a retryable error with
\* the 10-second delay, any other failure as a non-retryable error, and no
\* error only when all four objects are in place.
C15_ConfigureBatch ==
    [][run.pc = "configure" /\ run'.call.name = "Configure" =>
        LET err == run'.call.err
            target == stores.target
            target2 == stores'.target
        IN
        /\ stores'.platform = stores.platform
        /\ \A id \in TargetIds \ SeqToSet(ConfigureOrder) : target2[id] = target[id]
        /\ \E n \in 0..Len(ConfigureOrder) :
            /\ \A i \in 1..n : Exists(target2[ConfigureOrder[i]])
            /\ \A i \in (n + 1)..Len(ConfigureOrder) :
                target2[ConfigureOrder[i]] = target[ConfigureOrder[i]]
            /\ run'.call.writes \subseteq
                 {<<kind, ConfigureOrder[i]>> : kind \in {"create", "update"}, i \in 1..n}
            /\ IsError(err) <=> n < Len(ConfigureOrder)
            /\ ErrorsIs(err, "NoKindMatchError") =>
                 /\ n >= 1
                 /\ ~KindRegistered(kinds, ConfigureOrder[n + 1])
        /\ budget' = budget /\ ~KindRegistered(kinds, "gatewayclass") =>
             ErrorsIs(err, "NoKindMatchError")
        /\ IsError(err) =>
             IF ErrorsIs(err, "NoKindMatchError")
             THEN IsRetryableError(err) /\ err.after = RequeueCRDNotFound
             ELSE ~IsRetryableError(err) /\ err.after = 0
      ]_vars

\* C15 witness: Configure created the data-plane namespace on the target
\* store, met the gateway class kind unregistered and returned a retryable
\* error with the 10-second delay
C15_Witness ==
    /\ run.call.name = "Configure"
    /\ IsRetryableError(run.call.err)
    /\ run.call.err.after = RequeueCRDNotFound
    /\ run.call.writes = {<<"create", "nsGateway">>}
    /\ "gateway" \notin kinds
    /\ ~Exists(ObjectIn(stores, "target", "gatewayclass"))

\* C16: a retryable error raised in a run (access not yet available, a kind
\* not registered, remaining resources) ends the run at once and comes out of
\* Reconcile as requeue-after the error's own delay with no error, and the
\* request is queued again; a non-retryable error ends the run at once and
\* comes out as the error with no requeue-after; Reconcile never returns a
\* retryable error.
C16_RetryableBecomesRequeue ==
    /\ IsError(run.call.err) \/ run.access \in {"notyet", "error"} => run.pc = "done"
    /\ run.pc = "done" =>
        /\ ~IsRetryableError(run.res.err)
        /\ IsError(run.res.err) => run.res.requeueAfter = 0
        /\ Requeues(run.res) => queued
        /\ run.access = "notyet" =>
             run.hint > 0 /\ run.res = [requeueAfter |-> run.hint, err |-> NoError]
        /\ run.access = "error" => IsError(run.res.err)
        /\ IsRetryableError(run.call.err) =>
             /\ run.call.err.after > 0
             /\ run.res = [requeueAfter |-> run.call.err.after, err |-> NoError]
             /\ \/ /\ run.call.name \in {"Cleanup", "Uninstall"}
                   /\ IsRemainingResourcesError(run.call.err)
                \/ /\ run.call.name = "Configure"
                   /\ IsCRDNotFoundError(run.call.err)
        /\ IsError(run.call.err) /\ ~IsRetryableError(run.call.err) =>
             run.res = [requeueAfter |-> 0, err |-> run.call.err]

\* C16 witness: a run ended with Configure's retryable error and Reconcile
\* returned its delay and no error; the request is queued again
C16_Witness ==
    /\ run.pc = "done"
    /\ run.call.name = "Configure"
    /\ IsRetryableError(run.call.err)
    /\ run.res = [requeueAfter |-> RequeueCRDNotFound, err |-> NoError]
    /\ queued

-----------------------------------------------------------------------------
(* Abandoned runs.  reconcile is a whole run as one function of what it     *)
(* finds: no store call is refused, access is handed out, and every delete  *)
(* of an existing object gets the answer a.                                  *)

reconcile(cl, st, k, cfg, a) ==
    LET e == EffectiveOperation(cl.annotations)
        c1 == IF e.ok /\ e.op = OperationReconcile
              THEN [cl EXCEPT !.annotations = DeleteKey(@, ClearedAnnotation)] ELSE cl
        c2 == [c1 EXCEPT !.finalizers = @ \cup {GatewayFinalizerOnCluster}]
        c3 == Settle([c1 EXCEPT !.finalizers = @ \ {GatewayFinalizerOnCluster}])
        g == GatewayManager(cfg, c2)
        cleanup == Cleanup(st, k, [i \in 1..Len(CleanupObjects) |-> a])
        uninstall == Uninstall(cleanup.st, k, [i \in 1..Len(UninstallObjects) |-> a])
        install == InstallOrUpdate(st, k, g, 0)
        configure == Configure(install.st, k, g, 0)
    IN
    IF ~cl.exists \/ (e.ok /\ e.op = OperationIgnore)
    THEN [cluster |-> cl, stores |-> st]
    ELSE IF ~shouldReconcile(cfg.clusters, c1) THEN [cluster |-> c1, stores |-> st]
    ELSE IF IsTeardown(cfg.clusters, c1)
    THEN IF IsError(cleanup.err) THEN [cluster |-> c1, stores |-> cleanup.st]
         ELSE IF IsError(uninstall.err) THEN [cluster |-> c1, stores |-> uninstall.st]
         ELSE [cluster |-> c3, stores |-> uninstall.st]
    ELSE IF IsError(install.err) THEN [cluster |-> c2, stores |-> install.st]
    ELSE [cluster |-> c2, stores |-> configure.st]

\* the stores as a run dropped inside its current step leaves them: the
\* operations of the step's batch were carried out up to some position
AbandonedStores ==
    LET g == GatewayManager(config, run.c)
        answers(n) == {[i \in 1..n |-> a] : a \in {"removed", "lingers"}}
    IN
    CASE run.pc = "install" ->
           {createOrUpdate(stores, kinds, "platform", SubSeq(InstallOrUpdateOps(g), 1, n),
                           g, 0).st : n \in 0..Len(InstallOrUpdateOps(g))}
      [] run.pc = "configure" ->
           {createOrUpdate(stores, kinds, "target", SubSeq(ConfigureOps(g), 1, n),
                           g, 0).st : n \in 0..Len(ConfigureOps(g))}
      [] run.pc = "cleanup" ->
           UNION {{ensureDeletionOfObjects(stores, kinds, "target",
                                           SubSeq(CleanupObjects, 1, n), ch).st
                      : ch \in answers(n)} : n \in 0..Len(CleanupObjects)}
      [] run.pc = "uninstall" ->
           UNION {{ensureDeletionOfObjects(stores, kinds, "platform",
                                           SubSeq(UninstallObjects, 1, n), ch).st
                      : ch \in answers(n)} : n \in 0..Len(UninstallObjects)}
      [] OTHER -> {stores}

\* the process stops, or the context of the run is cancelled: the run in
\* progress is dropped where it is, and the restarted controller queues a
\* request for the cluster
Abandon ==
    /\ Active
    /\ \E st \in AbandonedStores : stores' = st
    /\ run' = [IdleRun EXCEPT !.pc = "abandoned", !.start = run.start]
    /\ queued' = TRUE
    /\ Spend
    /\ UNCHANGED <<config, cluster, kinds>>

\* a run that keeps what it found
StartTrackedRun ==
    StartRunFrom(<<[cluster |-> cluster, stores |-> stores, kinds |-> kinds]>>)

AbandonNext ==
    \/ StartTrackedRun
    \/ HandleAnnotation
    \/ BuildGatewayManager
    \/ CleanupStep
    \/ UninstallStep
    \/ RemoveFinalizerStep
    \/ AddFinalizerStep
    \/ InstallStep
    \/ ConfigureStep
    \/ RequestDeletion
    \/ SetLabels
    \/ SetOperationAnnotation
    \/ RemoveOtherFinalizer
    \/ StoreCompletesDeletion
    \/ ChartDelivery
    \/ Abandon
    \/ Resync

\* runs that can be dropped, in a system where no store call is refused
AbandonSpec == LiveInit /\ [][AbandonNext]_vars

DeleteAnswers == {"removed", "lingers"}

\* the finalizer and managed-object state: whether the cluster carries the
\* finalizer, and of every managed object whether it is live and with what
\* content
Outcome(s) ==
    [finalizer |-> s.cluster.exists /\ HasGatewayFinalizer(s.cluster),
     objects |-> [m \in ManagedObjects |->
                    IF ObjectIn(s.stores, m[1], m[2]).ph = "live"
                    THEN <<ObjectIn(s.stores, m[1], m[2]).spec>> ELSE <<>>]]

\* the stores after the store completed some of the deletions it accepted
Completions(st) ==
    LET pending == {m \in ManagedObjects : ObjectIn(st, m[1], m[2]).ph = "terminating"} IN
    {[client \in DOMAIN st |-> [id \in DOMAIN st[client] |->
        IF <<client, id>> \in done THEN Absent ELSE st[client][id]]]
        : done \in SUBSET pending}

\* the outcomes of n uninterrupted runs in a row from s, the store
\* completing deletions before each
RECURSIVE AfterRuns(_, _, _, _)
AfterRuns(s, k, cfg, n) ==
    IF n = 0 THEN {s}
    ELSE UNION {AfterRuns(reconcile(s.cluster, st, k, cfg, a), k, cfg, n - 1)
                  : a \in DeleteAnswers, st \in Completions(s.stores)}

\* what the dropped run had found
Found == run.start[1]

\* a run was dropped, and cluster, kinds and configuration are as it found
\* them, but for the run's own writes to the cluster
AbandonedSameInputs ==
    LET found == Found.cluster
        e == EffectiveOperation(found.annotations)
        rest(c) == [c EXCEPT !.finalizers = @ \ {GatewayFinalizerOnCluster},
                             !.annotations = {}]
    IN
    /\ run.pc = "abandoned"
    /\ run.start # NoStart
    /\ cluster.exists
    /\ kinds = Found.kinds
    /\ rest(cluster) = rest(found)
    /\ \/ cluster.annotations = found.annotations
       \/ /\ e.ok /\ e.op = OperationReconcile
          /\ cluster.annotations = DeleteKey(found.annotations, ClearedAnnotation)

\* the stores or the cluster differ from what the dropped run found
AbandonedAfterWrite ==
    stores # Found.stores \/ cluster # Found.cluster

LaterRun(a) == reconcile(cluster, stores, kinds, config, a)

Uninterrupted(n) ==
    AfterRuns([cluster |-> Found.cluster, stores |-> Found.stores], Found.kinds, config, n)

\* the stages of a teardown; a run stops with a requeue after the deletes of
\* a stage, so a teardown takes up to one run for each
TeardownStages == <<"cleanup", "uninstall", "removeFinalizer">>

-----------------------------------------------------------------------------
(* Properties of the operation annotations. *)

\* the value under the gateway key if the cluster has that key, the value
\* under the generic key if it has only that one
OperationInForce(c, op) ==
    /\ c.exists
    /\ IF HasKey(c.annotations, GatewayOperationAnnotation)
       THEN <<GatewayOperationAnnotation, op>> \in c.annotations
       ELSE <<GenericOperationAnnotation, op>> \in c.annotations

\* the annotation step of a run is taken
AnnotationStep == run.pc = "annotation" /\ run'.pc # "annotation"

\* C18: when the operation annotation in force on the cluster a run has read
\* is "ignore", the annotation step ends the run with no error and no
\* requeue-after and writes nothing: the cluster, the stores and the queue
\* are as before, no access is requested and the gateway manager is not
\* called; a deletion marker and the finalizer on the cluster make no
\* difference.
C18_IgnoreTakesNoAction ==
    [][AnnotationStep /\ OperationInForce(run.c, OperationIgnore) =>
        /\ run'.pc = "done"
        /\ run'.res = NoResult
        /\ run'.c = run.c
        /\ run'.log = {}
        /\ run'.access = "none"
        /\ run'.path = "none"
        /\ run'.call = NoCall
        /\ UNCHANGED <<cluster, stores, kinds, queued, budget>>
      ]_vars

\* C18 witness: a run on a cluster that is being deleted, carries the
\* finalizer and is annotated "ignore" has ended
C18_Witness ==
    /\ run.pc = "done"
    /\ OperationInForce(run.c, OperationIgnore)
    /\ run.c.deleting
    /\ HasGatewayFinalizer(run.c)
    /\ cluster = run.c

\* the key whose value is in force on a cluster
KeyInForce(c) ==
    IF HasKey(c.annotations, GatewayOperationAnnotation)
    THEN GatewayOperationAnnotation ELSE GenericOperationAnnotation

\* C19 as stated: when the operation annotation in force on the cluster a
\* run has read is "reconcile", under whichever key, the annotation step
\* fails or removes that annotation from the cluster and the run continues.
C19_ReconcileAnnotationCleared ==
    [][AnnotationStep /\ OperationInForce(run.c, OperationReconcile) =>
        \/ ErrorsIs(run'.res.err, "errFailedToRemoveOperationAnnotation")
        \/ /\ <<KeyInForce(run.c), OperationReconcile>> \notin cluster'.annotations
           /\ <<KeyInForce(run.c), OperationReconcile>> \notin run'.c.annotations
           /\ ~IsError(run'.res.err)
      ]_vars

\* C20: the value under the gateway key decides the annotation step whenever
\* the cluster a run has read has that key, whatever is under the generic
\* key; the value under the generic key decides only when the gateway key is
\* missing.  "ignore" ends the run with nothing written; any other value
\* lets the run go on (to the access request if the cluster is to be
\* reconciled), after the removal of the generic key if the value is
\* "reconcile" and that key is present.
C20_GatewayKeyTakesPrecedence ==
    [][AnnotationStep /\ run.c.exists =>
        LET ann == run.c.annotations
            v == IF HasKey(ann, GatewayOperationAnnotation)
                 THEN Lookup(ann, GatewayOperationAnnotation)
                 ELSE Lookup(ann, GenericOperationAnnotation)
            stopped ==
                /\ run'.pc = "done"
                /\ run'.res = NoResult
                /\ run'.log = {}
                /\ cluster' = cluster
            cleared ==
                (v = OperationReconcile /\ HasKey(ann, GenericOperationAnnotation))
                    <=> ClusterPatched(run')
            continued ==
                /\ ~IsError(run'.res.err)
                /\ cleared
                /\ run'.pc = IF shouldReconcile(config.clusters, run'.c)
                             THEN "build" ELSE "done"
        IN
        IF v = OperationIgnore THEN stopped
        ELSE \/ continued
             \/ /\ ErrorsIs(run'.res.err, "errFailedToRemoveOperationAnnotation")
                /\ v = OperationReconcile
                /\ run'.log = {}
      ]_vars

\* C20 witness: a run on a cluster in scope with "ignore" under the gateway
\* key and "reconcile" under the generic key has ended with nothing written
C20_Witness ==
    /\ run.pc = "done"
    /\ run.c.exists
    /\ <<GatewayOperationAnnotation, OperationIgnore>> \in run.c.annotations
    /\ <<GenericOperationAnnotation, OperationReconcile>> \in run.c.annotations
    /\ enabledForCluster(config.clusters, run.c)
    /\ run.log = {}
    /\ cluster = run.c

-----------------------------------------------------------------------------
(* Properties of the start of a run and of the scope decision. *)

\* the run ended at its Get: it holds no cluster object
EndedAtGet == run.pc = "done" /\ ~run.c.exists

\* C21: a run that ended at its Get has written nothing and called nothing;
\* it ended either with no error and no requeue-after, or with the refusal of
\* the Get as its error, wrapped, and never with a not-found error; where no
\* call was ever refused and the cluster is not in the store, it ended with
\* no error and no requeue-after.
C21_MissingClusterIsSuccess ==
    EndedAtGet =>
        /\ run.log = {}
        /\ run.call = NoCall
        /\ run.access = IdleRun.access
        /\ \/ run.res = NoResult
           \/ /\ ErrorsIs(run.res.err, "errFailedToGetCluster")
              /\ ErrorsIs(run.res.err, "Forbidden")
              /\ ~IsNotFound(run.res.err)
              /\ run.res.requeueAfter = 0
        /\ (~cluster.exists /\ budget.faults = MaxFaults) => run.res = NoResult

\* C21 witness: the cluster has left the store and a run for it has ended
\* with the empty result
C21_Witness ==
    /\ ~cluster.exists
    /\ run = [IdleRun EXCEPT !.pc = "done"]
    /\ ~queued

\* the cluster the run holds has no gateway finalizer and matches no term
OutOfScope(c) ==
    /\ c.exists
    /\ ~ContainsFinalizer(c, GatewayFinalizerOnCluster)
    /\ ~enabledForCluster(config.clusters, c)

\* C22: a run that ended holding a cluster without the gateway finalizer and
\* outside every term, and that was not a teardown, asked for no access,
\* called no gateway-manager operation, wrote no finalizer and created or
\* deleted no managed object; unless clearing the operation annotation failed
\* it ended with no error and no requeue-after.
C22_OutOfScopeDoesNothing ==
    (run.pc = "done" /\ OutOfScope(run.c) /\ run.path # "teardown") =>
        /\ run.access = "none"
        /\ run.call = NoCall
        /\ run.log \subseteq {<<"patch", "cluster">>}
        /\ \/ run.res = NoResult
           \/ ErrorsIs(run.res.err, "errFailedToRemoveOperationAnnotation")

\* C22 witness: such a run has ended with the empty result, nothing written
C22_Witness ==
    /\ run.pc = "done"
    /\ OutOfScope(run.c)
    /\ run.c = cluster
    /\ run.path = "none"
    /\ run.log = {}
    /\ run.res = NoResult
    /\ ~queued

-----------------------------------------------------------------------------
(* Properties of what a finished run returns and of what it leaves on the    *)
(* cluster object.                                                           *)

\* the converge run went through to the end: its last call, Configure, succeeded
ConvergeSucceeded ==
    /\ run.pc = "done"
    /\ run.path = "converge"
    /\ run.call.name = "Configure"
    /\ ~IsError(run.call.err)

\* the teardown run went through to the end: Uninstall found nothing left and
\* the finalizer is off the cluster the run holds
TeardownSucceeded ==
    /\ run.pc = "done"
    /\ run.path = "teardown"
    /\ run.call.name = "Uninstall"
    /\ ~IsError(run.call.err)
    /\ ~IsError(run.res.err)

\* C23: a converge run that went through to the end returns the one fixed
\* requeue-after, which is positive, and no error, and the request is queued
\* again; a teardown run that went through to the end returns no
\* requeue-after and no error; no other run returns the fixed requeue-after.
C23_ConvergedRequeuesTeardownDoesNot ==
    /\ RequeueConverged > 0
    /\ ConvergeSucceeded =>
        /\ run.res = [requeueAfter |-> RequeueConverged, err |-> NoError]
        /\ queued
    /\ TeardownSucceeded =>
        /\ run.res = NoResult
        /\ ~ContainsFinalizer(run.c, GatewayFinalizerOnCluster)
    /\ (run.pc = "done" /\ run.res.requeueAfter = RequeueConverged) => ConvergeSucceeded

\* C23 witness: a converge run went through and handed back the fixed delay
C23_Witness ==
    /\ ConvergeSucceeded
    /\ run.res.requeueAfter = RequeueConverged
    /\ stores.target["gateway"].ph = "live"

\* a step of the run that writes the cluster object
RunWritesCluster ==
    /\ Active
    /\ cluster' # cluster
    /\ run'.log # run.log

\* the part of a cluster object that is not this system's to write
ForeignPart(c) ==
    [name |-> c.name, namespace |-> c.namespace, labels |-> c.labels,
     purposes |-> c.purposes, deleting |-> c.deleting,
     finalizers |-> c.finalizers \ {GatewayFinalizerOnCluster},
     annotations |-> DeleteKey(DeleteKey(c.annotations, GatewayOperationAnnotation),
                               GenericOperationAnnotation)]

\* C24: a write of a run to the cluster object leaves its name, labels,
\* purposes, deletion marker, the other parties' finalizers and every
\* annotation but the operation annotation as they were; the object leaves
\* the store at a run's write only when its deletion was already requested
\* and the gateway finalizer was the last one on it, and a run never sets
\* the deletion marker.
C24_RunWritesOnlyFinalizerAndAnnotation ==
    [][RunWritesCluster =>
        /\ cluster.exists
        /\ IF cluster'.exists
           THEN ForeignPart(cluster') = ForeignPart(cluster)
           ELSE /\ cluster.deleting
                /\ cluster.finalizers = {GatewayFinalizerOnCluster}
                /\ <<"update", "cluster">> \in run'.log
      ]_vars

\* C24 witness: a teardown run has taken its finalizer off a cluster that
\* another party's finalizer still holds, labels and deletion marker as before
C24_Witness ==
    /\ run.pc = "done"
    /\ run.path = "teardown"
    /\ <<"update", "cluster">> \in run.log
    /\ cluster.exists
    /\ cluster.deleting
    /\ cluster.finalizers = {OtherFinalizer}
    /\ cluster.labels = {ScopeLabel}

-----------------------------------------------------------------------------
(* The selector engine on its own: the scope decision of a run over term     *)
(* lists and clusters drawn from bounded sets.                               *)

\* the terms a configuration may list: direct references with an empty, the
\* default and another namespace and to another name, selectors with and
\* without purpose and labels (a label value may be empty)
ScopeTerms ==
    {[ref |-> <<[name |-> n, namespace |-> ns]>>, selector |-> <<>>] :
        n \in {ClusterName}, ns \in {"", NamespaceDefault, ClusterNamespace}}
    \cup {[ref |-> <<[name |-> "other", namespace |-> ClusterNamespace]>>, selector |-> <<>>]}
    \cup {[ref |-> <<>>, selector |-> <<[matchPurpose |-> sel[1], matchLabels |-> sel[2]]>>] :
        sel \in {<<"", {}>>, <<"platform", {ScopeLabel}>>, <<"", {<<"env", "">>}>>}}

ScopeTermLists == UNION {[1..n -> ScopeTerms] : n \in 0..MaxTerms}

\* the labels another party may put on a cluster
ScopeLabels == {ScopeLabel, <<"env", "">>, <<"env", "prod">>}

ScopeClusters ==
    {[NewCluster(l, f) EXCEPT !.namespace = ns, !.purposes = p] :
        l \in {{}, {ScopeLabel}},
        f \in {{}, {GatewayFinalizerOnCluster}},
        ns \in {"", NamespaceDefault, ClusterNamespace},
        p \in {{}, {"platform"}}}

ScopeInit ==
    /\ \E ts \in ScopeTermLists, cfg \in Configs :
        /\ cfg.envoyGateway.images = <<>>
        /\ config = [cfg EXCEPT !.clusters = ts]
    /\ cluster \in ScopeClusters
    /\ stores = [EmptyStores EXCEPT !.platform["sourceSecret"] = Live(SourceSecretSpec)]
    /\ kinds = {"flux"}
    /\ run = IdleRun
    /\ queued = TRUE
    /\ budget = [external |-> MaxExternal, faults |-> MaxFaults]

\* the configuration gains a term; every cluster is queued again
AppendTerm ==
    /\ run.pc = "idle"
    /\ Len(config.clusters) < MaxTerms
    /\ \E t \in ScopeTerms : config' = [config EXCEPT !.clusters = Append(@, t)]
    /\ queued' = TRUE
    /\ Spend
    /\ UNCHANGED <<cluster, stores, kinds, run>>

\* another party puts a label with a new key on the cluster
AddLabel ==
    /\ run.pc = "idle"
    /\ \E l \in ScopeLabels :
        /\ ~HasKey(cluster.labels, l[1])
        /\ ClusterWrite([cluster EXCEPT !.labels = @ \cup {l}])

ScopeNext ==
    \/ StartRun
    \/ HandleAnnotation
    \/ BuildGatewayManager
    \/ AppendTerm
    \/ AddLabel

ScopeSpec == ScopeInit /\ [][ScopeNext]_vars

\* the run got past the scope decision
PastScopeDecision == run.pc \in {"build", "cleanup", "addFinalizer"} \/ run.access # "none"

\* C25: shouldReconcile is the gateway finalizer OR enabledForCluster, for
\* every cluster and term list; with the finalizer it is true whatever the
\* terms; a run goes past the scope decision exactly when it is true.
C25_ShouldReconcileIsFinalizerOrScope ==
    /\ shouldReconcile(config.clusters, cluster) =
         (ContainsFinalizer(cluster, GatewayFinalizerOnCluster)
            \/ enabledForCluster(config.clusters, cluster))
    /\ ContainsFinalizer(cluster, GatewayFinalizerOnCluster) =>
         shouldReconcile(config.clusters, cluster)
    /\ PastScopeDecision =>
         \/ ContainsFinalizer(run.c, GatewayFinalizerOnCluster)
         \/ enabledForCluster(config.clusters, run.c)
    /\ (run.pc = "done" /\ run.c.exists /\ run.access = "none") =>
         /\ ~ContainsFinalizer(run.c, GatewayFinalizerOnCluster)
         /\ ~enabledForCluster(config.clusters, run.c)

\* C25 witness: a run went past the scope decision for a cluster that carries
\* the finalizer and that no term of a non-empty list matches
C25_Witness ==
    /\ run.pc = "build"
    /\ ContainsFinalizer(run.c, GatewayFinalizerOnCluster)
    /\ Len(config.clusters) > 0
    /\ ~enabledForCluster(config.clusters, run.c)

\* a term matches as stated: a reference by equal name and namespace, a
\* selector by its purpose being among the cluster's purposes (an empty
\* purpose matches any) and every key/value pair of its labels being present
\* on the cluster
MatchesAsStated(ct, c) ==
    \/ /\ ct.ref # <<>>
       /\ normalizedName(ct.ref[1].name, ct.ref[1].namespace) = normalizedName(c.name, c.namespace)
    \/ /\ ct.selector # <<>>
       /\ ct.selector[1].matchPurpose = "" \/ ct.selector[1].matchPurpose \in c.purposes
       /\ ct.selector[1].matchLabels \subseteq c.labels

\* C26 as stated: enabledForCluster is true exactly when at least one term
\* of the list matches, a selector matching when its purpose is among the
\* cluster's purposes and every key/value pair of its labels is present on
\* the cluster; checked on the cluster of every run that has decided.
C26_EnabledExactlyWhenATermMatches ==
    (run.pc \notin {"idle", "annotation"} /\ run.c.exists) =>
        enabledForCluster(config.clusters, run.c) =
            (\E i \in 1..Len(config.clusters) : MatchesAsStated(config.clusters[i], run.c))

\* C27 as stated: appending a term to the list, or putting a label with a
\* new key on the cluster, never turns enabledForCluster from true to false.
C27_ScopeIsMonotonic ==
    [][enabledForCluster(config.clusters, cluster) =>
         enabledForCluster(config'.clusters, cluster')]_vars

\* C28: for every term of the list, a selector with an empty purpose matches
\* whenever its labels do, whatever the cluster's purposes; a selector with
\* an empty label set matches whenever its purpose does, whatever the
\* cluster's labels; a direct reference matches exactly when the names are
\* equal and the namespaces are equal once an empty namespace on either side
\* is read as the default namespace.
C28_SelectorEdgeCases ==
    \A i \in 1..Len(config.clusters) :
        LET ct == config.clusters[i]
            ns(n) == IF n = "" THEN NamespaceDefault ELSE n
        IN
        /\ ct.selector # <<>> /\ ct.selector[1].matchPurpose = "" =>
             /\ purposeMatches(ct.selector[1].matchPurpose, cluster)
             /\ selectorMatches(ct.selector[1], cluster)
                  = labelsMatch(ct.selector[1].matchLabels, cluster)
        /\ ct.selector # <<>> /\ ct.selector[1].matchLabels = {} =>
             /\ labelsMatch(ct.selector[1].matchLabels, cluster)
             /\ selectorMatches(ct.selector[1], cluster)
                  = purposeMatches(ct.selector[1].matchPurpose, cluster)
        /\ ct.selector # <<>> /\ ct.selector[1].matchPurpose = ""
             /\ ct.selector[1].matchLabels = {} => enabledForCluster(config.clusters, cluster)
        /\ ct.ref # <<>> =>
             refMatches(ct.ref[1], cluster)
                = (ct.ref[1].name = cluster.name
                     /\ ns(ct.ref[1].namespace) = ns(cluster.namespace))

\* C28 witness: a run took the converge path for a cluster with an empty
\* namespace that only a reference to the default namespace brings into scope
C28_Witness ==
    /\ run.pc = "addFinalizer"
    /\ run.c.namespace = ""
    /\ ~ContainsFinalizer(run.c, GatewayFinalizerOnCluster)
    /\ config.clusters =
         <<[ref |-> <<[name |-> ClusterName, namespace |-> NamespaceDefault]>>, selector |-> <<>>]>>

-----------------------------------------------------------------------------
(* Properties of what the gateway manager leaves in the stores.              *)

\* pull secrets are configured
SecretsConfigured ==
    /\ config.envoyGateway.images # <<>>
    /\ Len(config.envoyGateway.images[1].imagePullSecrets) > 0

\* the objects InstallOrUpdate applies, in its order, each with its store
InstallOrder ==
    <<<<"target", "nsDeployment">>>>
    \o (IF SecretsConfigured THEN <<<<"target", "secret">>>> ELSE <<>>)
    \o <<<<"platform", "repo">>, <<"platform", "helmRelease">>>>

\* C29: InstallOrUpdate applies the control-plane namespace, the copies of
\* the configured pull secrets, the chart source and the chart release in
\* this order and stops at the first failure; when it returns no error the
\* namespace exists on the target store, the copy of every configured pull
\* secret exists there with the data and type of the source secret on the
\* platform store, and the chart source with the configured url and tag and
\* the chart release exist on the platform store.
C29_InstallOrUpdatePostcondition ==
    [][run.pc = "install" /\ run'.call.name = "InstallOrUpdate" =>
        LET err == run'.call.err
            at(st, i) == ObjectIn(st, InstallOrder[i][1], InstallOrder[i][2])
            src == ObjectIn(stores, "platform", "sourceSecret")
        IN
        /\ \E n \in 0..Len(InstallOrder) :
            /\ \A i \in 1..n : Exists(at(stores', i))
            /\ \A i \in (n + 1)..Len(InstallOrder) : at(stores', i) = at(stores, i)
            /\ run'.call.writes \subseteq
                 {<<kind, InstallOrder[i][2]>> : kind \in {"create", "update"}, i \in 1..n}
            /\ IsError(err) <=> n < Len(InstallOrder)
        /\ ~IsError(err) =>
            /\ run'.pc = "configure"
            /\ Exists(ObjectIn(stores', "target", "nsDeployment"))
            /\ SecretsConfigured =>
                 /\ Exists(src)
                 /\ Exists(ObjectIn(stores', "target", "secret"))
                 /\ ObjectIn(stores', "target", "secret").spec.data = src.spec.data
                 /\ ObjectIn(stores', "target", "secret").spec.type = src.spec.type
            /\ Exists(ObjectIn(stores', "platform", "repo"))
            /\ ObjectIn(stores', "platform", "repo").spec.url = config.envoyGateway.chart.url
            /\ ObjectIn(stores', "platform", "repo").spec.tag = config.envoyGateway.chart.tag
            /\ Exists(ObjectIn(stores', "platform", "helmRelease"))
            /\ ObjectIn(stores', "platform", "helmRelease").spec.targetNamespace
                 = deploymentNamespace
      ]_vars

\* C29 witness: InstallOrUpdate has created all four objects, the secret copy
\* among them, and the run goes on to Configure
C29_Witness ==
    /\ run.pc = "configure"
    /\ run.call.name = "InstallOrUpdate"
    /\ SecretsConfigured
    /\ run.call.writes = {<<"create", id>> : id \in {"nsDeployment", "secret", "repo", "helmRelease"}}
    /\ ObjectIn(stores, "target", "secret") = Live(SourceSecretSpec)

\* what another party may have put into an object that carries the name of
\* one of Configure's objects
ForeignSpec(id) ==
    CASE id = "gatewayclass" -> [controllerName |-> "example.com/gatewayclass-controller"]
      [] id = "envoyProxy" -> [providerType |-> "Custom", image |-> "envoy:other",
                               imagePullSecrets |-> <<>>, held |-> "json"]
      [] id = "gateway" ->
            [gatewayClassName |-> "other", port |-> 443, tlsMode |-> "Terminate",
             parametersRef |-> "", baseDomain |-> <<>>, infrastructureLabels |-> "team"]
      [] OTHER -> EmptySpec

\* the target stores a run may find: each of Configure's objects is absent or
\* was put there by another party
PriorStores ==
    {[EmptyStores EXCEPT !.platform["sourceSecret"] = Live(SourceSecretSpec),
                         !.target = [id \in DOMAIN @ |->
                                        IF id \in held THEN Live(ForeignSpec(id)) ELSE @[id]]]
        : held \in SUBSET SeqToSet(ConfigureOrder)}

PriorInit ==
    /\ config \in Configs
    /\ cluster \in {NewCluster({ScopeLabel}, f) : f \in {{}, {GatewayFinalizerOnCluster}}}
    /\ stores \in PriorStores
    /\ kinds = {"flux", "gateway"}
    /\ run = IdleRun
    /\ queued = TRUE
    /\ budget = [external |-> MaxExternal, faults |-> MaxFaults]

PriorNext ==
    \/ StartRun
    \/ HandleAnnotation
    \/ BuildGatewayManager
    \/ AddFinalizerStep
    \/ InstallStep
    \/ ConfigureStep

PriorSpec == PriorInit /\ [][PriorNext]_vars

\* C30 as stated: when Configure has returned no error, whatever the target
\* store held before, the gateway class exists with the Envoy gateway-class
\* controller name, the proxy configuration exists with provider type
\* Kubernetes, and the gateway exists with the managed class name, the
\* TLS-passthrough listener on the fixed port, the parameter reference to the
\* proxy configuration and the base domain made of cluster name, cluster
\* namespace and configured base domain.
C30_ConfigurePostcondition ==
    ConvergeSucceeded =>
        LET class == ObjectIn(stores, "target", "gatewayclass")
            proxy == ObjectIn(stores, "target", "envoyProxy")
            gateway == ObjectIn(stores, "target", "gateway")
        IN
        /\ Exists(ObjectIn(stores, "target", "nsGateway"))
        /\ Exists(class)
        /\ class.spec.controllerName = gatewayClassControllerName
        /\ Exists(proxy)
        /\ proxy.spec.providerType = "Kubernetes"
        /\ Exists(gateway)
        /\ gateway.spec.gatewayClassName = gatewayClassName
        /\ gateway.spec.port = TLSPort
        /\ gateway.spec.tlsMode = "Passthrough"
        /\ gateway.spec.parametersRef = gatewayName
        /\ gateway.spec.baseDomain = <<run.c.name, run.c.namespace, config.dns.baseDomain>>

-----------------------------------------------------------------------------
(* Properties of the teardown calls.                                         *)

\* the objects a deletion call is made for
DeletionObjects(name) == IF name = "Cleanup" THEN CleanupObjects ELSE UninstallObjects

\* C31: an error of Cleanup or Uninstall is either the failure of a delete,
\* which is neither a remaining-resources nor a retryable error, or, with a
\* delete accepted and none failed, the error ensureDeletionOfObjects builds,
\* as built: it is a remaining-resources error and a retryable error, carries
\* the objects of the call and the 10-second delay, and is no other error.
C31_RemainingResourcesVerbatim ==
    (run.call.name \in {"Cleanup", "Uninstall"} /\ IsError(run.call.err)) =>
        LET err == run.call.err IN
        IF ErrorsIs(err, "errFailedToDeleteObject")
        THEN /\ ~IsRemainingResourcesError(err)
             /\ ~IsRetryableError(err)
             /\ err.objs = <<>>
        ELSE /\ Len(run.call.remaining) > 0
             /\ err = NewRemainingResourcesError(RequeueRemainingResources,
                                                 DeletionObjects(run.call.name))
             /\ IsRemainingResourcesError(err)
             /\ IsRetryableError(err)
             /\ err.after = RequeueRemainingResources
             /\ err.objs = DeletionObjects(run.call.name)
             /\ \A type \in {"NotFound", "NoKindMatchError", "Forbidden", "Conflict",
                             "errFailedToDeleteObject"} : ~ErrorsIs(err, type)

\* C31 witness: Uninstall had one of its two deletes accepted and returned the
\* remaining-resources error for both objects of the call
C31_Witness ==
    /\ run.call.name = "Uninstall"
    /\ Len(run.call.remaining) = 1
    /\ IsRemainingResourcesError(run.call.err)
    /\ IsRetryableError(run.call.err)
    /\ run.call.err.objs = UninstallObjects

\* the objects written for a cluster that serve it: chart release and chart
\* source on the platform store, gateway, proxy configuration and gateway
\* class on the target store
ServingObjects ==
    {<<"platform", id>> : id \in SeqToSet(UninstallObjects)}
        \cup {<<"target", id>> : id \in SeqToSet(CleanupObjects)}

\* C32: whenever one of the chart release, chart source, gateway, proxy
\* configuration and gateway class written for the cluster exists, the
\* cluster object exists and carries the gateway finalizer.
C32_NoOrphans ==
    (\E o \in ServingObjects : Exists(ObjectIn(stores, o[1], o[2]))) =>
        /\ cluster.exists
        /\ ContainsFinalizer(cluster, GatewayFinalizerOnCluster)

\* C32 witness: the deletion of the cluster was requested while its chart
\* release and gateway are live; the gateway finalizer is the only one left
\* and holds the cluster object in the store
C32_Witness ==
    /\ cluster.exists
    /\ cluster.deleting
    /\ cluster.finalizers = {GatewayFinalizerOnCluster}
    /\ ObjectIn(stores, "platform", "helmRelease").ph = "live"
    /\ ObjectIn(stores, "target", "gateway").ph = "live"

-----------------------------------------------------------------------------
(* Convergence.  The cluster is in scope and stays so, nobody asks for its   *)
(* deletion; the work queue delivers every request, a started run goes on,   *)
(* access is granted in the end, the kinds get registered, and the stores    *)
(* refuse only so many calls.                                                *)

ConvergeInit ==
    /\ config \in Configs
    /\ cluster = NewCluster({ScopeLabel}, {OtherFinalizer})
    /\ stores = [EmptyStores EXCEPT !.platform["sourceSecret"] = Live(SourceSecretSpec)]
    /\ kinds = {}
    /\ run = IdleRun
    /\ queued = TRUE
    /\ budget = [external |-> MaxExternal, faults |-> MaxFaults]

\* the steps of a converge run other than buildGatewayManager
ConvergeStep ==
    \/ HandleAnnotation
    \/ AddFinalizerStep
    \/ InstallStep
    \/ ConfigureStep

ConvergeNext ==
    \/ StartRun
    \/ BuildGatewayManager
    \/ ConvergeStep
    \/ RemoveOtherFinalizer
    \/ FluxDelivery
    \/ ChartDelivery
    \/ Resync

ConvergeSpec ==
    /\ ConvergeInit
    /\ [][ConvergeNext]_vars
    /\ WF_vars(StartRun)
    /\ WF_vars(ConvergeStep)
    /\ SF_vars(BuildWithAccess)
    /\ WF_vars(FluxDelivery)
    /\ WF_vars(ChartDelivery)

\* the cluster carries the finalizer and every object of the converge path
\* is live in its desired state
Converged ==
    LET live(client, id) == ObjectIn(stores, client, id).ph = "live"
        spec(client, id) == ObjectIn(stores, client, id).spec
    IN
    /\ cluster.exists
    /\ HasGatewayFinalizer(cluster)
    /\ live("target", "nsDeployment")
    /\ live("target", "nsGateway")
    /\ SecretsConfigured => ObjectIn(stores, "target", "secret") = Live(SourceSecretSpec)
    /\ live("platform", "repo")
    /\ spec("platform", "repo").url = config.envoyGateway.chart.url
    /\ spec("platform", "repo").tag = config.envoyGateway.chart.tag
    /\ live("platform", "helmRelease")
    /\ spec("platform", "helmRelease").targetNamespace = deploymentNamespace
    /\ live("target", "gatewayclass")
    /\ spec("target", "gatewayclass").controllerName = gatewayClassControllerName
    /\ live("target", "envoyProxy")
    /\ spec("target", "envoyProxy").providerType = "Kubernetes"
    /\ live("target", "gateway")
    /\ spec("target", "gateway").gatewayClassName = gatewayClassName
    /\ spec("target", "gateway").port = TLSPort
    /\ spec("target", "gateway").tlsMode = "Passthrough"
    /\ spec("target", "gateway").parametersRef = gatewayName
    /\ spec("target", "gateway").baseDomain
         = <<cluster.name, cluster.namespace, config.dns.baseDomain>>

\* C33 as stated: the cluster eventually carries the finalizer with the
\* namespaces, the pull-secret copies, the chart source, the chart release,
\* the gateway class, the proxy configuration and the gateway in their
\* desired state, and stays so under later runs.
C33_EventualConvergence == <>[]Converged

-----------------------------------------------------------------------------
(* Properties of repeated runs.                                              *)

\* C34: when a converge run has succeeded, a further complete run that finds
\* the cluster, the configuration and the stores as that run left them (no
\* ignore annotation was put on the cluster in the meantime, and every
\* object the run applied is live in its store) writes nothing: no operation annotation is left to remove and the
\* finalizer is on the cluster, so the cluster object is neither patched nor
\* updated, InstallOrUpdate and Configure succeed without a create or an
\* update and leave the stores as they are, and the run returns the same
\* result.
C34_ConvergeFixpoint ==
    [][/\ run.pc = "configure" /\ ConvergeSucceeded' /\ cluster' = run'.c
       /\ LET e == EffectiveOperation(cluster'.annotations)
          IN ~(e.ok /\ e.op = OperationIgnore)
       /\ LET g == GatewayManager(config', cluster') IN
          /\ \A i \in 1..Len(InstallOrUpdateOps(g)) :
               LET op == InstallOrUpdateOps(g)[i] IN
               ObjectIn(stores', OperationClient("platform", op), op.obj).ph = "live"
          /\ \A i \in 1..Len(ConfigureOps(g)) :
               LET op == ConfigureOps(g)[i] IN
               ObjectIn(stores', OperationClient("target", op), op.obj).ph = "live"
       =>
         LET e == EffectiveOperation(cluster'.annotations)
             g == GatewayManager(config', cluster')
             install == InstallOrUpdate(stores', kinds', g, 0)
             configure == Configure(install.st, kinds', g, 0)
         IN
         /\ ~(e.ok /\ e.op = OperationReconcile
                  /\ HasKey(cluster'.annotations, ClearedAnnotation))
         /\ shouldReconcile(config'.clusters, cluster')
         /\ ~IsTeardown(config'.clusters, cluster')
         /\ GatewayFinalizerOnCluster \in cluster'.finalizers
         /\ ~IsError(install.err) /\ install.writes = {}
         /\ ~IsError(configure.err) /\ configure.writes = {}
         /\ configure.st = stores'
         /\ run'.res = [requeueAfter |-> RequeueConverged, err |-> NoError]
    ]_vars

\* the objects whose delete the store accepted in the run (answered without
\* an error)
AcceptedDeletes ==
    LET refused == IF ErrorsIs(run.call.err, "errFailedToDeleteObject")
                   THEN {run.call.issued[Len(run.call.issued)]} ELSE {}
    IN ({e[2] : e \in {x \in run.log : x[1] = "delete"}} \ GoneAnswers(run)) \ refused

\* C35: a deletion call in which the store accepted a delete returns an
\* error, also when the store removed the object at once; the run ends
\* there, so Uninstall is not called in a run whose Cleanup had a delete
\* accepted, and a run that removes the finalizer had every delete it issued
\* answered not-found or kind-not-registered.
C35_AcceptedDeleteEndsRun ==
    /\ run.call.name \in {"Cleanup", "Uninstall"} /\ Len(run.call.remaining) > 0 =>
         /\ IsError(run.call.err)
         /\ run.pc = "done"
         /\ IsError(run.call.err) /\ ~ErrorsIs(run.call.err, "errFailedToDeleteObject") =>
              /\ IsRemainingResourcesError(run.call.err)
              /\ run.res = [requeueAfter |-> RequeueRemainingResources, err |-> NoError]
    /\ run.call.name = "Cleanup" /\ Len(run.call.remaining) > 0 =>
         \A i \in 1..Len(UninstallObjects) : <<"delete", UninstallObjects[i]>> \notin run.log
    /\ run.pc = "removeFinalizer" \/ TeardownSucceeded => AcceptedDeletes = {}
    /\ AcceptedDeletes # {} =>
         /\ <<"update", "cluster">> \notin run.log
         /\ run.pc = "done" /\ IsError(run.call.err)
         /\ AcceptedDeletes = SeqToSet(run.call.remaining)

\* C35 witness: a Cleanup call had its one delete accepted and the store
\* removed the gateway at once; the call returned remaining resources and
\* the run ended with the finalizer in place
C35_Witness ==
    /\ run.pc = "done"
    /\ run.call.name = "Cleanup"
    /\ run.call.remaining = <<"gateway">>
    /\ ~Exists(ObjectIn(stores, "target", "gateway"))
    /\ IsRemainingResourcesError(run.call.err)
    /\ GatewayFinalizerOnCluster \in cluster.finalizers

-----------------------------------------------------------------------------
(* Two clusters.  The controller runs one reconcile per cluster key, and    *)
(* the runs of two clusters go on at the same time; what they share is the  *)
(* platform store.  PairSpec is the platform-store side of two such runs:   *)
(* cluster is the pair of clusters, stores maps an identity on the platform *)
(* store to <<>> or <<spec>>, run holds the position of each run, the       *)
(* stores the runs started from and the order in which the runs acted.      *)
(* Each store call is a step of its own.                                    *)

PairClusters ==
    {[name |-> n, namespace |-> ns, deleting |-> d]
        : n \in {"foo", "foo.gateway", "bar"}, ns \in {"default", "bar"}, d \in BOOLEAN}

PairIdentities ==
    UNION {{getRepo(GatewayManager(config, c)), getHelmRelease(GatewayManager(config, c))} : c \in PairClusters}

\* deployment.go:88-137: what the two MutateFns write
PairDesired(g, id) ==
    IF id.kind = "OCIRepository"
    THEN <<reconcileOCIRepositoryFunc(g, FreshSpec("repo")).spec>>
    ELSE <<[reconcileHelmReleaseFunc(g, FreshSpec("helmRelease")).spec
               EXCEPT !.chartRef = <<"OCIRepository", repoName(g)>>]>>

\* deployment.go:40-61 and 63-68: the identities a run addresses, in the
\* order of its store calls
PairCalls(c) ==
    LET g == GatewayManager(config, c) IN
    IF c.deleting THEN <<getHelmRelease(g), getRepo(g)>> ELSE <<getRepo(g), getHelmRelease(g)>>

\* one store call of a run for cluster c: a create-or-update on the converge
\* path, a delete on the teardown path
PairCall(st, c, id) ==
    [st EXCEPT ![id] = IF c.deleting THEN <<>> ELSE PairDesired(GatewayManager(config, c), id)]

\* the whole run for cluster c, with no other run in between
RECURSIVE PairRun(_, _, _)
PairRun(st, c, i) ==
    IF i > Len(PairCalls(c)) THEN st
    ELSE PairRun(PairCall(st, c, PairCalls(c)[i]), c, i + 1)

PairInit ==
    /\ config \in {cfg \in Configs : cfg.envoyGateway.images # <<>>}
    /\ cluster \in {p \in PairClusters \X PairClusters :
                        <<p[1].name, p[1].namespace>> # <<p[2].name, p[2].namespace>>}
    /\ \E held \in SUBSET {1, 2} :
         stores = [id \in PairIdentities |->
                     IF \E n \in held : id \in SeqToSet(PairCalls(cluster[n]))
                     THEN <<[fields |-> "earlier"]>> ELSE <<>>]
    /\ run = [pc |-> <<0, 0>>, start |-> stores, order |-> <<>>]
    /\ kinds = {"flux"}
    /\ queued = TRUE
    /\ budget = [external |-> 0, faults |-> 0]

\* the next store call of the run for cluster n
PairStep(n) ==
    /\ run.pc[n] < Len(PairCalls(cluster[n]))
    /\ stores' = PairCall(stores, cluster[n], PairCalls(cluster[n])[run.pc[n] + 1])
    /\ run' = [run EXCEPT !.pc[n] = @ + 1, !.order = Append(@, n)]
    /\ UNCHANGED <<config, cluster, kinds, queued, budget>>

PairNext == \E n \in {1, 2} : PairStep(n)

PairSpec == PairInit /\ [][PairNext]_vars

PairManagers == <<GatewayManager(config, cluster[1]), GatewayManager(config, cluster[2])>>

\* C36: the runs of two distinct clusters address different chart sources
\* and chart releases, the identities a run addresses depend on the name and
\* the namespace of its cluster only, every store call of a run is made on
\* the identities of its own cluster, and when both runs are through, the
\* platform store holds what the two runs leave when one runs after the
\* other, in either order.
C36_ClustersDoNotShareChartObjects ==
    /\ {getRepo(PairManagers[1]), getHelmRelease(PairManagers[1])}
          \cap {getRepo(PairManagers[2]), getHelmRelease(PairManagers[2])} = {}
    /\ \A n \in {1, 2} :
         /\ getRepo(PairManagers[n]).namespace = cluster[n].namespace
         /\ getRepo(PairManagers[n]).name = cluster[n].name \o ".gateway"
         /\ getHelmRelease(PairManagers[n]).namespace = cluster[n].namespace
         /\ getHelmRelease(PairManagers[n]).name = cluster[n].name \o ".gateway"
         /\ getRepo(GatewayManager(config, [cluster[n] EXCEPT !.deleting = ~@])) = getRepo(PairManagers[n])
         /\ \A id \in PairIdentities \ SeqToSet(PairCalls(cluster[n])) :
              run.pc[3 - n] = 0 => stores[id] = run.start[id]
    /\ run.pc = <<2, 2>> =>
         /\ stores = PairRun(PairRun(run.start, cluster[1], 1), cluster[2], 1)
         /\ stores = PairRun(PairRun(run.start, cluster[2], 1), cluster[1], 1)

\* C36 witness: the runs of foo and foo.gateway in one namespace took turns,
\* one converging and one tearing down objects that were there, and both are
\* through
C36_Witness ==
    /\ run.pc = <<2, 2>>
    /\ run.order = <<1, 2, 1, 2>>
    /\ cluster[1].name = "foo" /\ cluster[2].name = "foo.gateway"
    /\ cluster[1].namespace = cluster[2].namespace
    /\ ~cluster[1].deleting /\ cluster[2].deleting
    /\ run.start[getRepo(PairManagers[2])] # <<>>
    /\ stores[getRepo(PairManagers[1])] # <<>>
    /\ stores[getRepo(PairManagers[2])] = <<>>

-----------------------------------------------------------------------------
(* Properties of what teardown leaves alone.                                 *)

\* C37: a Cleanup call changes nothing but the gateway, the proxy
\* configuration and the gateway class on the target store, and an
\* Uninstall call nothing but the chart release and the chart source on the
\* platform store; both leave the two namespaces and the copied pull secrets
\* on the target store as they are.
C37_TeardownLeavesNamespacesAndSecrets ==
    [][/\ run.pc = "cleanup" /\ run'.pc # "cleanup" =>
            /\ run'.call.name = "Cleanup"
            /\ stores'.platform = stores.platform
            /\ \A id \in DOMAIN stores.target \ SeqToSet(CleanupObjects) :
                 stores'.target[id] = stores.target[id]
            /\ \A id \in KeptObjects : stores'.target[id] = stores.target[id]
       /\ run.pc = "uninstall" /\ run'.pc # "uninstall" =>
            /\ run'.call.name = "Uninstall"
            /\ stores'.target = stores.target
            /\ \A id \in DOMAIN stores.platform \ SeqToSet(UninstallObjects) :
                 stores'.platform[id] = stores.platform[id]
      ]_vars

\* C37 witness: an Uninstall call had a delete accepted, after a Cleanup of
\* an earlier run, and the two namespaces and the copied pull secret are
\* still live on the target store
C37_Witness ==
    /\ run.call.name = "Uninstall"
    /\ Len(run.call.remaining) > 0
    /\ \A id \in KeptObjects : ObjectIn(stores, "target", id).ph = "live"
    /\ \A i \in 1..Len(CleanupObjects) :
         ~Exists(ObjectIn(stores, "target", CleanupObjects[i]))

-----------------------------------------------------------------------------
(* Properties of a configuration without image overrides.                    *)

\* C38: with a configuration whose image overrides are unset, InstallOrUpdate
\* and Configure end with a result and do not abort the run: neither call
\* ends in a panic, no pull secret is copied, and a Configure call that no
\* store refused and that found the gateway kinds registered succeeds and
\* leaves a proxy configuration with no image override and no pull-secret
\* references.
C38_UnsetImagesIsValid ==
    config.envoyGateway.images = <<>> /\ run.call.name \in {"InstallOrUpdate", "Configure"} =>
        /\ ~ErrorsIs(run.call.err, "panic")
        /\ <<"create", "secret">> \notin run.log
        /\ <<"update", "secret">> \notin run.log
        /\ run.call.name = "Configure" /\ ~IsFault(run.call.err)
              /\ ~IsCRDNotFoundError(run.call.err) =>
               /\ ~IsError(run.call.err)
               /\ <<"create", "envoyProxy">> \in run.log
                     \/ <<"update", "envoyProxy">> \in run.log

-----------------------------------------------------------------------------
(* IsCRDNotFoundError on its own.  run holds an error value, whether it has *)
(* been handed to IsCRDNotFoundError, and the answer.                        *)

MaxWrapped == 3

\* an ErrResourceDiscoveryFailed error with the given group errors
ErrResourceDiscoveryFailed(failed) ==
    [chain |-> <<"ErrResourceDiscoveryFailed">>, after |-> 0, objs |-> <<>>,
     failed |-> failed]

ErrInit ==
    /\ config \in {cfg \in Configs : cfg.envoyGateway.images # <<>>}
    /\ cluster = NewCluster({ScopeLabel}, {OtherFinalizer})
    /\ stores = EmptyStores
    /\ kinds = {}
    /\ queued = FALSE
    /\ budget = [external |-> 0, faults |-> 0]
    /\ \E e \in {NoError} \cup {StoreError(t) : t \in {"NotFound", "Forbidden",
                                                      "NoKindMatchError",
                                                      "NoResourceMatchError"}}
                \cup {ErrResourceDiscoveryFailed(f) :
                        f \in UNION {[1..n -> {StoreError("NotFound"), StoreError("Forbidden"),
                                               StoreError("NoKindMatchError"),
                                               Wrap("context", StoreError("NotFound"))}]
                                        : n \in 0..MaxWrapped}} :
         run = [pc |-> "given", err |-> e, out |-> FALSE]

\* the error is wrapped into one with more context before it is looked at:
\* fmt.Errorf("...: %w", err)
ErrWrap ==
    /\ run.pc = "given"
    /\ IsError(run.err)
    /\ ~ErrorsIs(run.err, "context")
    /\ run' = [run EXCEPT !.err = Wrap("context", @)]
    /\ UNCHANGED <<config, cluster, stores, kinds, queued, budget>>

ErrCheck ==
    /\ run.pc = "given"
    /\ run' = [run EXCEPT !.pc = "checked", !.out = IsCRDNotFoundError(run.err)]
    /\ UNCHANGED <<config, cluster, stores, kinds, queued, budget>>

ErrNext == ErrWrap \/ ErrCheck

ErrSpec == ErrInit /\ [][ErrNext]_vars

\* the kind of the error at the bottom of the chain
ErrKind(err) == err.chain[Len(err.chain)]

\* C39: IsCRDNotFoundError answers false for no error, true for a
\* no-kind-match and for a no-resource-match error, and for a
\* resource-discovery-failed error true exactly when every error it carries
\* is a not-found error: true when it carries none, false when one of them
\* is of another kind; a not-found or forbidden error by itself gets false.
C39_IsCRDNotFoundError ==
    run.pc = "checked" =>
        IF ~IsError(run.err) THEN run.out = FALSE
        ELSE CASE ErrKind(run.err) \in {"NoKindMatchError", "NoResourceMatchError"} ->
                    run.out = TRUE
               [] ErrKind(run.err) = "ErrResourceDiscoveryFailed" ->
                    /\ run.err.failed = <<>> => run.out = TRUE
                    /\ run.out = (\A i \in 1..Len(run.err.failed) :
                                     ErrKind(run.err.failed[i]) = "NotFound")
               [] OTHER -> run.out = FALSE

\* C39 witness: a resource-discovery-failed error that carries a not-found
\* and a forbidden error was answered false
C39_Witness ==
    /\ run.pc = "checked"
    /\ IsError(run.err)
    /\ ErrKind(run.err) = "ErrResourceDiscoveryFailed"
    /\ run.err.failed = <<StoreError("NotFound"), StoreError("Forbidden")>>
    /\ run.out = FALSE

====
